---------------------------- MODULE Spec2Model ----------------------------
(***************************************************************************)
(* Model of the email-triage function                                      *)
(* (src/backend/api/runtime/lambda_function.py).                           *)
(*                                                                         *)
(* Text is modelled as a sequence of atoms.  An atom is either one         *)
(* character class that the code distinguishes (".", "-", "LF", ...) or a  *)
(* run of ordinary characters that no pattern of the code can split        *)
(* ("s3", "amazonaws", "b", ...).  Substring, prefix and suffix tests of   *)
(* the code are the same tests on the atom sequences.                      *)
(***************************************************************************)
EXTENDS Integers, Sequences, FiniteSets, TLC

VARIABLES
    probe,      \* a pure function under check: its name, argument and result
    env,        \* the process configuration read at import time
    event,      \* the contact event handed to lambda_handler
    pc,         \* position of lambda_handler
    loc,        \* lambda_handler's local variables
    refIdx,     \* extract_email_content: index of the reference being walked
    dl,         \* safe_download_s3_json: position, url and the I/O it has done
    cb,         \* call_bedrock: loop position, invocations made, result
    response,   \* the record being built / returned
    table,      \* the key-value store: contactId -> item
    stages      \* the pipeline stages this invocation has completed, in order

vars == <<probe, env, event, pc, loc, refIdx, dl, cb, response, table, stages>>
pipelineVars == <<env, event, pc, loc, refIdx, dl, cb, response, table, stages>>

-----------------------------------------------------------------------------
(* Bounds of the model *)

\* longest host prefix (in atoms) put in front of a domain tail
MaxHostLen == 4
\* largest count a risk factor takes
MaxCount == 1
\* longest list of references an event carries
MaxRefs == 2

-----------------------------------------------------------------------------
(* Generic helpers on atom sequences (Python str operations) *)

\* Python: pattern in text
Contains(text, pattern) ==
    \E i \in 0..(Len(text) - Len(pattern)) :
        SubSeq(text, i + 1, i + Len(pattern)) = pattern

\* Python: text.endswith(suffix)
EndsWith(text, suffix) ==
    /\ Len(suffix) <= Len(text)
    /\ SubSeq(text, Len(text) - Len(suffix) + 1, Len(text)) = suffix

\* Python: text.startswith(prefix)
StartsWith(text, prefix) ==
    /\ Len(prefix) <= Len(text)
    /\ SubSeq(text, 1, Len(prefix)) = prefix

\* str.lower() on one atom: the only upper-case atoms of the model
LowerAtom(a) ==
    CASE a = "S3" -> "s3"
      [] a = "HTTPS" -> "https"
      [] OTHER -> a

\* str.lower() on a sequence of atoms
LowerSeq(s) == [i \in 1..Len(s) |-> LowerAtom(s[i])]

-----------------------------------------------------------------------------
(* URLs.  A url is what urlparse makes of it: whether it parses at all,    *)
(* the scheme as written, the host as written, and the path segments.      *)

NoUrl == [parses |-> FALSE, scheme |-> "", host |-> <<>>, path |-> <<>>]

MkUrl(scheme, host, path) ==
    [parses |-> TRUE, scheme |-> scheme, host |-> host, path |-> path]

\* urlparse(url).scheme: lower-cased
UrlScheme(url) == LowerAtom(url.scheme)

\* urlparse(url).hostname: lower-cased, None (here <<>>) when empty
UrlHostname(url) == LowerSeq(url.host)

AwsSuffix == <<".", "amazonaws", ".", "com">>

s3_patterns ==
    << <<".", "s3">> \o AwsSuffix,          \* '.s3.amazonaws.com'
       <<".", "s3", "-">>,                   \* '.s3-'
       <<".", "s3", ".">>,                   \* '.s3.'
       <<"s3">> \o AwsSuffix,                \* 's3.amazonaws.com'
       <<"s3", "-">> >>                      \* 's3-'

validate_aws_url(url) ==
    IF ~url.parses THEN FALSE                      \* except Exception: False
    ELSE IF UrlScheme(url) # "https" THEN FALSE
    ELSE IF UrlHostname(url) = <<>> THEN FALSE
    ELSE LET hostname == UrlHostname(url)
             is_s3_pattern ==
                 \E k \in 1..Len(s3_patterns) : Contains(hostname, s3_patterns[k])
             is_aws_domain ==
                 \/ EndsWith(hostname, AwsSuffix)
                 \/ hostname = <<"amazonaws", ".", "com">>
         IN  is_s3_pattern /\ is_aws_domain


-----------------------------------------------------------------------------
(* Confidence scorer *)

CONFIDENCE_DEDUCTIONS ==
    [ no_knowledge          |-> 0 - 100,
      unclear_info          |-> 0 - 85,
      premium_complaints    |-> 0 - 50,
      angry_frustrated_tone |-> 0 - 30,
      urgency               |-> 0 - 15,
      multiple_topics       |-> 0 - 10 ]

RecognizedFactors == DOMAIN CONFIDENCE_DEDUCTIONS

\* dict.get(factor, 0) on the deduction table
DeductionOf(factor) ==
    IF factor \in RecognizedFactors THEN CONFIDENCE_DEDUCTIONS[factor] ELSE 0

Max(a, b) == IF a >= b THEN a ELSE b

RECURSIVE SumOver(_, _)
\* sum(CONFIDENCE_DEDUCTIONS.get(f, 0) * count for f, count in factors.items()
\*     if f in CONFIDENCE_DEDUCTIONS), over the keys in `keys`
SumOver(factors, keys) ==
    IF keys = {} THEN 0
    ELSE LET f == CHOOSE k \in keys : TRUE
         IN  (IF f \in RecognizedFactors THEN DeductionOf(f) * factors[f] ELSE 0)
             + SumOver(factors, keys \ {f})

\* The result is a dict literal: the two computed entries first, then one
\* entry per key of `factors`; a later entry replaces an earlier one of the
\* same name.
calculate_confidence_score(factors) ==
    LET total_deduction == SumOver(factors, DOMAIN factors)
    IN  [k \in {"total_deduction", "final_score"} \cup DOMAIN factors |->
            IF k \in DOMAIN factors THEN DeductionOf(k) * factors[k]
            ELSE IF k = "total_deduction" THEN total_deduction
            ELSE Max(0, 100 + total_deduction)]

-----------------------------------------------------------------------------
(* Optional values: None is <<>>, a present value v is <<v>>. *)

None == <<>>
Some(v) == <<v>>
IsNone(o) == o = <<>>
Val(o) == o[1]

Min(a, b) == IF a <= b THEN a ELSE b

-----------------------------------------------------------------------------
(* Text normalisation.  Atoms of a text: "CR" "LF" "TAB" (control          *)
(* characters the code names), "BEL" (any other control character), "BOM"  *)
(* (U+FEFF), "NONASCII" (a printable character above 126), "BULLET"        *)
(* (U+2022), "BSN" and "BSR" (the two-character texts backslash-n and      *)
(* backslash-r), "BR" (the text <br/>), " " (space); any other atom is a   *)
(* run of printable ASCII characters.                                      *)

RECURSIVE FlatMap(_, _)
\* the concatenation of Op(text[i]) for every i (Op by a lookup function)
FlatMap(text, map) ==
    IF text = <<>> THEN <<>>
    ELSE (IF text[1] \in DOMAIN map THEN map[text[1]] ELSE <<text[1]>>)
         \o FlatMap(Tail(text), map)

RECURSIVE ReplaceCRLF(_)
\* text.replace('\r\n', '\n')
ReplaceCRLF(text) ==
    IF Len(text) < 2 THEN text
    ELSE IF text[1] = "CR" /\ text[2] = "LF"
         THEN <<"LF">> \o ReplaceCRLF(SubSeq(text, 3, Len(text)))
         ELSE <<text[1]>> \o ReplaceCRLF(Tail(text))

\* char in '\n\t' or (char.isprintable() and ord(char) < 127)
KeptByCleanString(a) == a \notin {"CR", "BEL", "BOM", "NONASCII", "BULLET"}

clean_string(text) ==
    LET t1 == ReplaceCRLF(text)
        t2 == FlatMap(t1, [CR |-> <<"LF">>, BOM |-> <<>>])
    IN  SelectSeq(t2, KeptByCleanString)

\* \s of the re module, after the replacements of format_text
IsSpace(a) == a \in {" ", "LF", "CR", "TAB"}

RECURSIVE CollapseSpace(_)
\* re.sub(r'\s+', ' ', text)
CollapseSpace(text) ==
    IF text = <<>> THEN <<>>
    ELSE IF IsSpace(text[1])
         THEN IF Len(text) >= 2 /\ IsSpace(text[2])
              THEN CollapseSpace(Tail(text))
              ELSE <<" ">> \o CollapseSpace(Tail(text))
         ELSE <<text[1]>> \o CollapseSpace(Tail(text))

\* str.strip() for a text whose only white space is " "
RECURSIVE Strip(_)
Strip(text) ==
    IF text = <<>> THEN <<>>
    ELSE IF IsSpace(text[1]) THEN Strip(Tail(text))
    ELSE IF IsSpace(text[Len(text)]) THEN Strip(SubSeq(text, 1, Len(text) - 1))
    ELSE text

format_text(text, html_breaks) ==
    LET break_char == IF html_breaks THEN <<"BR">> ELSE <<" ">>
        t1 == FlatMap(text, [LF |-> break_char, CR |-> <<" ">>, TAB |-> <<" ">>])
        t2 == FlatMap(t1, [BULLET |-> <<"-">>, BSN |-> break_char, BSR |-> <<" ">>])
    IN  Strip(CollapseSpace(t2))

\* text.replace('\\n', '\n')
UnescapeNewlines(text) == FlatMap(text, [BSN |-> <<"LF">>])

-----------------------------------------------------------------------------
(* Response builder *)

PLACEHOLDER_NAME == <<"Valued Customer">>
HOLD_FOR_AGENT == <<"Thank you for contacting us. An agent will assist you.">>

\* The salutation 'Dear Valued Customer' is the two atoms "Dear " and
\* "Valued Customer"; a customer name is a text.
RECURSIVE ReplaceAll(_, _, _)
\* text.replace(old, new): every occurrence of old, left to right
ReplaceAll(text, old, new) ==
    IF Len(text) < Len(old) THEN text
    ELSE IF SubSeq(text, 1, Len(old)) = old
         THEN new \o ReplaceAll(SubSeq(text, Len(old) + 1, Len(text)), old, new)
         ELSE <<text[1]>> \o ReplaceAll(Tail(text), old, new)

\* customer_name is an optional text.  The second replace works on the
\* result of the first.
fix_customer_name_in_response(text, customer_name) ==
    IF ~IsNone(customer_name) /\ Val(customer_name) # <<>>
       /\ Val(customer_name) # PLACEHOLDER_NAME
    THEN LET name == Val(customer_name)
             t1 == ReplaceAll(text, <<"Dear ", "Valued Customer", ",">>,
                              <<"Dear ">> \o name \o <<",">>)
         IN  ReplaceAll(t1, <<"Dear ", "Valued Customer">>, <<"Dear ">> \o name)
    ELSE text

ResponseDefaults ==
    [ contactId              |-> None,
      customer_name_text     |-> None,
      confidence_score       |-> 0,
      confidence_explanation |-> <<>>,
      suggested_response     |-> HOLD_FOR_AGENT,
      intent                 |-> <<"General Inquiry">>,
      category               |-> <<"General_Inquiry">>,
      credit_available       |-> FALSE,
      credit_value           |-> None,
      spending_profile       |-> None,
      service_level          |-> None,
      add_info               |-> None,
      model_used             |-> None ]

\* kwargs: the keyword arguments, a function from field names to values
build_response(kwargs) ==
    LET merged == kwargs @@ ResponseDefaults
        fixed == fix_customer_name_in_response(merged.suggested_response,
                                               merged.customer_name_text)
        suggested == UnescapeNewlines(fixed)
    IN  [merged EXCEPT !.suggested_response = suggested] @@
        [ confidence_explanation_sbs_formatting |->
              format_text(merged.confidence_explanation, TRUE),
          suggested_response_sbs_formatting |-> format_text(suggested, TRUE),
          suggested_response_agent |-> suggested ]

-----------------------------------------------------------------------------
(* Contact events.  ContactData is a record:                               *)
(*   ContactId       optional identifier                                   *)
(*   attrsIsDict     whether "Attributes" is absent or a mapping (FALSE:   *)
(*                   the key holds null)                                   *)
(*   Attributes      mapping name -> text                                  *)
(*   SegmentAttributes  mapping name -> text (the ValueString)             *)
(*   InstanceARN     optional text, its parts separated by "/" atoms       *)
(*   refsIsDict      whether "References" is absent or a mapping           *)
(*   References      the mapping's items in order: [key, Type, Value]      *)

\* dict.get(name) on a mapping name -> text: an optional text
Get(map, name) == IF name \in DOMAIN map THEN Some(map[name]) ELSE None

\* truthiness of an optional text
Truthy(o) == ~IsNone(o) /\ Val(o) # <<>>

\* int(text): the integer a text denotes, None when it denotes none
IntOf(text) ==
    LET t == Strip(text)
    IN  IF t = <<"700">> THEN Some(700)
        ELSE IF t = <<"0">> THEN Some(0)
        ELSE None

\* str(n) for the integers IntOf yields
StrOf(n) == IF n = 700 THEN "700" ELSE "0"

\* The result is [raised, value]: raised for an exception the function does
\* not catch (an AttributeError of .get on a non-mapping), value an optional.
extract_attribute(cd, attribute_name, convert_to_int) ==
    IF ~cd.attrsIsDict THEN [raised |-> TRUE, value |-> None]
    ELSE
    LET value == Get(cd.Attributes, attribute_name)
        seg == Get(cd.SegmentAttributes, attribute_name)
        Convert(v) ==
            IF convert_to_int
            THEN (IF IsNone(IntOf(v)) THEN None          \* ValueError: None
                  ELSE Some(Val(IntOf(v))))
            ELSE Some(Strip(v))
    IN  IF Truthy(value) /\ Strip(Val(value)) # <<>>
        THEN [raised |-> FALSE, value |-> Convert(Val(value))]
        ELSE IF Truthy(seg) /\ Strip(Val(seg)) # <<>>
        THEN [raised |-> FALSE, value |-> Convert(Val(seg))]
        ELSE [raised |-> FALSE, value |-> None]

-----------------------------------------------------------------------------
(* Model output and its parser, as the pipeline sees them.  A model        *)
(* output text is described by what json.loads makes of it after the       *)
(* pre-pass:                                                               *)
(*   shape    "object", "nondict" (a JSON array, string or number) or      *)
(*            "garbage" (not JSON: the pattern fallback runs)              *)
(*   present  the keys of the object / the fields the patterns matched     *)
(*   nonString  keys of the object whose value is not a string (null)      *)
(*   factorsIsDict, factors, confidence_explanation, intent, category,     *)
(*   suggested_response: the values                                        *)

BooleanFactors ==
    {"no_knowledge", "unclear_info", "premium_complaints",
     "angry_frustrated_tone", "urgency"}

MkOutput(shape, present, nonString, factorsIsDict, factors, expl, intent, category, suggested) ==
    [ shape |-> shape, present |-> present, nonString |-> nonString,
      factorsIsDict |-> factorsIsDict, factors |-> factors,
      confidence_explanation |-> expl, intent |-> intent,
      category |-> category, suggested_response |-> suggested ]

\* Raw response text is a sequence of characters: "Q" (double quote), "BS"
\* (backslash), "LF", "CR", " ", "FENCE_JSON" and "FENCE" (the marks that
\* open and close a fenced block of json), and
\* any other atom for one other character.

\* lines 421-426: strip, drop an opening and a closing fence mark, strip
CleanResponseText(response_text) ==
    LET t1 == Strip(response_text)
        t2 == IF t1 # <<>> /\ t1[1] = "FENCE_JSON" THEN Tail(t1) ELSE t1
        t3 == IF t2 # <<>> /\ t2[Len(t2)] = "FENCE"
              THEN SubSeq(t2, 1, Len(t2) - 1) ELSE t2
    IN  Strip(t3)

RECURSIVE FixNewlinesFrom(_, _, _)
\* lines 431-440: the loop of fix_newlines from index i
FixNewlinesFrom(text, i, in_string) ==
    IF i > Len(text) THEN <<>>
    ELSE LET char == text[i]
             toggles == char = "Q" /\ (i = 1 \/ text[i - 1] # "BS")
             out == IF toggles THEN <<char>>
                    ELSE IF in_string /\ char = "LF" THEN <<"BS", "n">>
                    ELSE IF in_string /\ char = "CR" THEN <<"BS", "r">>
                    ELSE <<char>>
         IN  out \o FixNewlinesFrom(text, i + 1,
                                    IF toggles THEN ~in_string ELSE in_string)

fix_newlines(text) == FixNewlinesFrom(text, 1, FALSE)

\* int(digits) of the runtime (Python 3.13) raises ValueError for a run of
\* more than 4300 decimal digits
INT_MAX_STR_DIGITS == 4300

\* the number of digits of the text's multiple_topics number: topicsDigits
\* when the text carries it, 1 otherwise
TopicsDigits(text) ==
    IF "topicsDigits" \in DOMAIN text THEN text.topicsDigits ELSE 1

\* the text with a multiple_topics number of n digits
WithDigits(text, n) == [topicsDigits |-> n] @@ text

\* The result is [raised, data]: raised when the strict path raises
\* something other than JSONDecodeError (.replace on a non-string value,
\* the ValueError of an integer too long to convert) or the fallback's
\* int() raises.
parse_bedrock_response(text) ==
    IF text.shape = "object"
    THEN IF "multiple_topics" \in DOMAIN text.factors
            /\ TopicsDigits(text) > INT_MAX_STR_DIGITS
         THEN [raised |-> TRUE, data |-> text]
         ELSE IF \E key \in {"suggested_response", "confidence_explanation"} :
                key \in text.present /\ key \in text.nonString
         THEN [raised |-> TRUE, data |-> text]
         ELSE [raised |-> FALSE,
               data |-> [text EXCEPT
                   !.suggested_response = UnescapeNewlines(@),
                   !.confidence_explanation = UnescapeNewlines(@)]]
    ELSE IF text.shape = "nondict"
    THEN [raised |-> FALSE, data |-> text]
    ELSE IF "multiple_topics" \in DOMAIN text.factors
            /\ TopicsDigits(text) > INT_MAX_STR_DIGITS
    THEN [raised |-> TRUE, data |-> text]           \* int(match.group(1))
    ELSE \* pattern fallback: every field present, defaults where unmatched
         [raised |-> FALSE,
          data |-> MkOutput("object",
              {"factors", "confidence_explanation", "intent", "category",
               "suggested_response"},
              {}, TRUE,
              [f \in BooleanFactors \cup {"multiple_topics"} |->
                  IF f \in DOMAIN text.factors
                  THEN (IF f \in BooleanFactors THEN 1 ELSE text.factors[f])
                  ELSE 0],
              IF "confidence_explanation" \in text.present
                  THEN text.confidence_explanation
                  ELSE <<"Analysis unavailable">>,
              IF "intent" \in text.present THEN text.intent
                  ELSE <<"General Inquiry">>,
              IF "category" \in text.present THEN text.category
                  ELSE <<"General_Inquiry">>,
              IF "suggested_response" \in text.present
                  THEN text.suggested_response
                  ELSE HOLD_FOR_AGENT)]

\* data.get(key, default) on a parsed object
DataGet(data, key, default) ==
    IF key \in data.present THEN data[key] ELSE default

-----------------------------------------------------------------------------
(* Candidate models *)

NEWER_MODEL == "anthropic.claude-3-5-haiku-20241022-v1:0"
OLDER_MODEL == "anthropic.claude-3-haiku-20240307-v1:0"

\* region_map: the inference-profile prefix of a region (a text whose first
\* atom is the region's first part); 'us' unless the region starts with 'eu-'
RegionPrefix(region) ==
    IF StartsWith(region, <<"eu", "-">>) THEN "eu" ELSE "us"

\* A model identifier is [prefix, model]: prefix "" for the unqualified form.
get_model_id(region) ==
    << [prefix |-> RegionPrefix(region), model |-> NEWER_MODEL],
       [prefix |-> "", model |-> NEWER_MODEL],
       [prefix |-> RegionPrefix(region), model |-> OLDER_MODEL],
       [prefix |-> "", model |-> OLDER_MODEL] >>

\* MODEL_IDS = get_model_id(), computed once from the environment
MODEL_IDS == get_model_id(env.AWS_REGION)

NoModel == [prefix |-> "", model |-> "No"]

-----------------------------------------------------------------------------
(* Idle values: what the pipeline variables hold while a pure function is  *)
(* checked, and what `probe` holds while the pipeline runs.                *)

NoProbe == [fn |-> "none", arg |-> <<>>, ret |-> <<>>, done |-> TRUE]

PipelineIdle ==
    /\ env = <<>>
    /\ event = <<>>
    /\ pc = "idle"
    /\ loc = <<>>
    /\ refIdx = 0
    /\ dl = <<>>
    /\ cb = <<>>
    /\ response = <<>>
    /\ table = <<>>
    /\ stages = <<>>

-----------------------------------------------------------------------------
(* The email pipeline: lambda_handler and the functions it calls, one      *)
(* action per step.  An I/O call is a nondeterministic choice over what    *)
(* the service can answer.                                                 *)

SENTINEL == <<"Customer inquiry">>
NoResponse == [none |-> TRUE]
CONTENT_FIELDS == <<"messageContent", "content", "body", "text", "message">>
RETENTION == 259200

LocInit ==
    [ email_content |-> <<>>, credit_score |-> None, customer_name |-> None,
      spending_profile |-> None, service_level |-> None, add_info |-> None,
      kb_query |-> <<>>, knowledge_results |-> <<>>,
      retrieval |-> [raised |-> FALSE, results |-> <<>>],  \* the service's answer
      confidence_calculation |-> <<>>,
      source |-> "none",       \* which source gave email_content
      raised |-> "none" ]      \* the stage whose exception reached the handler

DlIdle == [pc |-> "idle", url |-> NoUrl, validated |-> FALSE,
           s3_read |-> FALSE, http_request |-> FALSE, doc |-> <<>>]

CbInit == [idx |-> 1, invoked |-> <<>>, failures |-> 0, firstReturned |-> 0,
           success |-> FALSE, data |-> <<>>, model_used |-> NoModel]

\* the contact data of the event
cd == event.ContactData

Stage(name) == stages' = Append(stages, name)

\* an exception reaches the try block of lambda_handler
Raise(stage) ==
    /\ pc' = "except"
    /\ loc' = [loc EXCEPT !.raised = stage]

\* lambda_handler, line 535: contact_data = event["Details"]["ContactData"]
HandlerEntry ==
    /\ pc = "entry"
    /\ IF event.hasContactData
       THEN pc' = "extract" /\ loc' = loc
       ELSE Raise("entry")
    /\ UNCHANGED <<probe, env, event, refIdx, dl, cb, response, table, stages>>

\* extract_email_content returns `content`
ExtractReturn(content, source) ==
    /\ loc' = [loc EXCEPT !.email_content = content, !.source = source]
    /\ pc' = "attributes"
    /\ refIdx' = 0
    /\ dl' = DlIdle
    /\ Stage("content_extraction")

\* the loop of extract_email_content moves to the next reference
NextReference ==
    /\ refIdx' = refIdx + 1
    /\ pc' = "refs"
    /\ dl' = DlIdle
    /\ UNCHANGED <<loc, stages>>

\* a plausible slip: the identifiers are read outside the try block, so a
\* missing InstanceARN or ContactId leaves the function as an exception
ExtractEmailContentBeginUnguarded ==
    /\ pc = "extract"
    /\ IF ~cd.attrsIsDict
       THEN ExtractReturn(SENTINEL, "sentinel")
       ELSE IF Truthy(Get(cd.Attributes, "body"))
       THEN ExtractReturn(clean_string(cd.Attributes["body"]), "body")
       ELSE IF IsNone(cd.InstanceARN) \/ IsNone(cd.ContactId)
       THEN Raise("content_extraction") /\ UNCHANGED <<refIdx, dl, stages>>
       ELSE /\ refIdx' = 1
            /\ pc' = "refs"
            /\ UNCHANGED <<loc, dl, stages>>
    /\ UNCHANGED <<probe, env, event, cb, response, table>>

\* a plausible slip: the references are walked before the body attribute is
\* looked at
ExtractEmailContentBeginRefsFirst ==
    /\ pc = "extract"
    /\ IF ~cd.attrsIsDict
       THEN ExtractReturn(SENTINEL, "sentinel")
       ELSE IF Truthy(Get(cd.Attributes, "body")) /\ cd.References = <<>>
       THEN ExtractReturn(clean_string(cd.Attributes["body"]), "body")
       ELSE IF IsNone(cd.InstanceARN)
               \/ ~(\E i \in 1..Len(Val(cd.InstanceARN)) : Val(cd.InstanceARN)[i] = "/")
       THEN ExtractReturn(SENTINEL, "sentinel")
       ELSE IF IsNone(cd.ContactId)
       THEN ExtractReturn(SENTINEL, "sentinel")
       ELSE IF ~cd.refsIsDict
       THEN ExtractReturn(SENTINEL, "sentinel")
       ELSE /\ refIdx' = 1
            /\ pc' = "refs"
            /\ UNCHANGED <<loc, dl, stages>>
    /\ UNCHANGED <<probe, env, event, cb, response, table>>

\* extract_email_content, lines 363-374: the body attribute, the instance
\* and contact identifiers, the start of the loop.  Every exception is
\* caught at line 413 and gives the sentinel.
ExtractEmailContentBegin ==
    /\ pc = "extract"
    /\ IF ~cd.attrsIsDict
       THEN ExtractReturn(SENTINEL, "sentinel")                     \* AttributeError
       ELSE IF Truthy(Get(cd.Attributes, "body"))
       THEN ExtractReturn(clean_string(cd.Attributes["body"]), "body")
       ELSE IF IsNone(cd.InstanceARN)
               \/ ~(\E i \in 1..Len(Val(cd.InstanceARN)) : Val(cd.InstanceARN)[i] = "/")
       THEN ExtractReturn(SENTINEL, "sentinel")                     \* KeyError, IndexError
       ELSE IF IsNone(cd.ContactId)
       THEN ExtractReturn(SENTINEL, "sentinel")                     \* KeyError
       ELSE IF ~cd.refsIsDict
       THEN ExtractReturn(SENTINEL, "sentinel")                     \* AttributeError
       ELSE /\ refIdx' = 1
            /\ pc' = "refs"
            /\ UNCHANGED <<loc, dl, stages>>
    /\ UNCHANGED <<probe, env, event, cb, response, table>>

\* file_id = Value or Reference or Id or ref_key
FileId(ref) == IF Truthy(ref.Value) THEN Val(ref.Value) ELSE ref.key

\* lines 375-382: a reference that is no EMAIL_MESSAGE or has no file id
WalkReferenceSkip ==
    /\ pc = "refs"
    /\ refIdx <= Len(cd.References)
    /\ LET ref == cd.References[refIdx]
       IN  \/ ~ref.isDict
           \/ ref.Type # "EMAIL_MESSAGE"
           \/ FileId(ref) = <<>>
    /\ NextReference
    /\ UNCHANGED <<probe, env, event, cb, response, table>>

\* urls the file API hands out
DownloadUrls ==
    { MkUrl("https", <<"b", ".", "s3", ".", "b">> \o AwsSuffix, <<"key">>),
      MkUrl("HTTPS", <<"b", ".", "s3", ".", "b">> \o AwsSuffix, <<"key">>),
      MkUrl("https", <<"s3", "-", "b">> \o AwsSuffix, <<"bkt", "key">>),
      MkUrl("https", <<"s3", "-", "b">> \o AwsSuffix, <<"bkt">>),
      MkUrl("https", <<"s3", ".", "b">> \o AwsSuffix, <<"bkt", "key">>),
      MkUrl("https", <<"b", ".", "s3", "-", "b">> \o AwsSuffix, <<"key">>),
      MkUrl("https", <<"b", ".", "s3", ".", "evil">> \o AwsSuffix, <<"key">>),
      MkUrl("http", <<"b", ".", "s3", ".", "b">> \o AwsSuffix, <<"key">>),
      MkUrl("https", <<"evil", ".", "com">>, <<"key">>),
      NoUrl }

\* lines 384-395: get_attached_file and the download url of its response
GetAttachedFile ==
    /\ pc = "refs"
    /\ refIdx <= Len(cd.References)
    /\ LET ref == cd.References[refIdx]
       IN  ref.isDict /\ ref.Type = "EMAIL_MESSAGE" /\ FileId(ref) # <<>>
    /\ \/ \* the call raises, or the response has no download url
          /\ NextReference
       \/ \E u \in DownloadUrls :
             /\ dl' = [DlIdle EXCEPT !.pc = "validate", !.url = u]
             /\ pc' = "download"
             /\ UNCHANGED <<refIdx, loc, stages>>
    /\ UNCHANGED <<probe, env, event, cb, response, table>>

\* lines 74-87: the bucket and key of a validated url; "none" when the
\* host has neither form or the path-style path has fewer than two parts
UrlStyle(url) ==
    LET hostname == UrlHostname(url)
    IN  IF Contains(hostname, <<".", "s3", ".">>) /\ EndsWith(hostname, AwsSuffix)
        THEN "virtual"
        ELSE IF StartsWith(hostname, <<"s3", ".">>) \/ StartsWith(hostname, <<"s3", "-">>)
        THEN (IF Len(url.path) < 2 THEN "none" ELSE "path")
        ELSE "none"

\* a plausible slip: the gate does not stop a rejected url
DownloadValidateNoGate ==
    /\ pc = "download"
    /\ dl.pc = "validate"
    /\ dl' = [dl EXCEPT !.pc = "get_object", !.validated = validate_aws_url(dl.url)]
    /\ UNCHANGED <<pc, refIdx, loc, stages>>
    /\ UNCHANGED <<probe, env, event, cb, response, table>>

\* safe_download_s3_json, lines 58-90: the validation gate, then the bucket
\* and key.  A raise is caught by the reference loop (line 402).
DownloadValidate ==
    /\ pc = "download"
    /\ dl.pc = "validate"
    /\ IF ~validate_aws_url(dl.url)
       THEN NextReference                               \* ValueError
       ELSE IF UrlStyle(dl.url) = "none"
       THEN NextReference                               \* ValueError
       ELSE /\ dl' = [dl EXCEPT !.pc = "get_object", !.validated = TRUE]
            /\ UNCHANGED <<pc, refIdx, loc, stages>>
    /\ UNCHANGED <<probe, env, event, cb, response, table>>

\* documents the object store or the pre-signed url can return: isJson
\* (whether json.loads accepts the bytes), isDict, and the content fields
EmailDocs ==
    { [isJson |-> FALSE, isDict |-> FALSE, fields |-> <<>>],
      [isJson |-> TRUE, isDict |-> FALSE, fields |-> <<>>],
      [isJson |-> TRUE, isDict |-> TRUE, fields |-> <<>>],
      [isJson |-> TRUE, isDict |-> TRUE,
       fields |-> [content |-> <<>>, body |-> <<"Body", "CR", "LF", "text">>]],
      [isJson |-> TRUE, isDict |-> TRUE,
       fields |-> [messageContent |-> <<"Message", "BEL", "content">>,
                   message |-> <<"Body", "CR", "LF", "text">>]] }

\* lines 95-98: s3_client.get_object
DownloadGetObject ==
    /\ pc = "download"
    /\ dl.pc = "get_object"
    /\ \/ \E d \in EmailDocs :                          \* the object's bytes
             dl' = [dl EXCEPT !.pc = "loaded", !.s3_read = TRUE, !.doc = d]
       \/ \* ClientError: fall back to the pre-signed url
          dl' = [dl EXCEPT !.pc = "http", !.s3_read = TRUE]
       \/ \* any other exception: ValueError at line 116
          dl' = [dl EXCEPT !.pc = "failed", !.s3_read = TRUE]
    /\ UNCHANGED <<probe, env, event, pc, loc, refIdx, cb, response, table, stages>>

\* lines 99-113: the HTTP fallback
DownloadHttpFallback ==
    /\ pc = "download"
    /\ dl.pc = "http"
    /\ IF dl.url.scheme # "https"                       \* url.startswith('https://')
       THEN dl' = [dl EXCEPT !.pc = "failed"]
       ELSE \/ \E d \in EmailDocs :                     \* status 200
                  dl' = [dl EXCEPT !.pc = "loaded", !.http_request = TRUE, !.doc = d]
            \/ \* another status, or the request raises
               dl' = [dl EXCEPT !.pc = "failed", !.http_request = TRUE]
    /\ UNCHANGED <<probe, env, event, pc, loc, refIdx, cb, response, table, stages>>

RECURSIVE FirstContent(_, _)
\* lines 398-400: the first content field with a truthy value, from index i
FirstContent(fields, i) ==
    IF i > Len(CONTENT_FIELDS) THEN None
    ELSE IF Truthy(Get(fields, CONTENT_FIELDS[i]))
         THEN Some(fields[CONTENT_FIELDS[i]])
         ELSE FirstContent(fields, i + 1)

\* a plausible slip: a failed download ends the walk with the sentinel
DownloadFinishAbort ==
    /\ pc = "download"
    /\ dl.pc \in {"loaded", "failed"}
    /\ IF dl.pc = "failed" \/ ~dl.doc.isJson \/ ~dl.doc.isDict
       THEN ExtractReturn(SENTINEL, "sentinel")
       ELSE IF IsNone(FirstContent(dl.doc.fields, 1))
       THEN NextReference
       ELSE /\ ExtractReturn(clean_string(Val(FirstContent(dl.doc.fields, 1))),
                          "reference")
    /\ UNCHANGED <<probe, env, event, cb, response, table>>

\* json.loads of what was fetched, the return of safe_download_s3_json and
\* the probe of the content fields (lines 395-405)
DownloadFinish ==
    /\ pc = "download"
    /\ dl.pc \in {"loaded", "failed"}
    /\ IF dl.pc = "failed" \/ ~dl.doc.isJson \/ ~dl.doc.isDict
       THEN NextReference              \* ValueError, AttributeError: caught
       ELSE IF IsNone(FirstContent(dl.doc.fields, 1))
       THEN NextReference
       ELSE /\ ExtractReturn(clean_string(Val(FirstContent(dl.doc.fields, 1))),
                          "reference")
    /\ UNCHANGED <<probe, env, event, cb, response, table>>

\* lines 407-411: the subject line, then the sentinel
ExtractEmailContentFallback ==
    /\ pc = "refs"
    /\ refIdx > Len(cd.References)
    /\ IF Truthy(Get(cd.SegmentAttributes, "connect:EmailSubject"))
       THEN ExtractReturn(<<"Email Subject: ">> \o
                          cd.SegmentAttributes["connect:EmailSubject"], "subject")
       ELSE ExtractReturn(SENTINEL, "sentinel")
    /\ UNCHANGED <<probe, env, event, cb, response, table>>

\* lambda_handler, lines 539-543.  An exception extract_attribute does not
\* catch reaches the handler's try block.
ExtractAttributes ==
    /\ pc = "attributes"
    /\ LET credit == extract_attribute(cd, "CreditScore", TRUE)
           name == extract_attribute(cd, "CustomerName", FALSE)
           profile == extract_attribute(cd, "SpendingProfile", FALSE)
           level == extract_attribute(cd, "ServiceLevel", FALSE)
           info == extract_attribute(cd, "AddInfo", FALSE)
       IN  IF credit.raised \/ name.raised \/ profile.raised \/ level.raised
              \/ info.raised
           THEN Raise("attributes")
           ELSE /\ pc' = "knowledge"
                /\ loc' = [loc EXCEPT
                      !.credit_score = credit.value,
                      !.customer_name =
                          IF Truthy(name.value) THEN name.value
                          ELSE Some(PLACEHOLDER_NAME),
                      !.spending_profile = profile.value,
                      !.service_level = level.value,
                      !.add_info = info.value]
    /\ UNCHANGED <<probe, env, event, refIdx, dl, cb, response, table, stages>>

KB_EMPTY == <<"No relevant information found in the knowledge base.">>
KB_ERROR == <<"Error retrieving information from knowledge base.">>

\* line 332: the query, with the credit score appended when it is truthy.
\* No text of the model reaches the 1000 characters of line 335.
EnhancedQuery(query_text, credit_score) ==
    IF ~IsNone(credit_score) /\ Val(credit_score) # 0
    THEN query_text \o <<" [Customer Credit Score: ", StrOf(Val(credit_score)), "]">>
    ELSE query_text

\* what retrieve (line 338) answers: an exception, or the results in the
\* service's order, each a passage of relevance 0.90
RetrievalAnswers ==
    { [raised |-> TRUE, results |-> <<>>] }
    \cup { [raised |-> FALSE, results |-> r] :
              r \in { <<>>, <<"passage">>, <<"passage", "other passage">>,
                      <<"other passage", "passage">> } }

InformationLabel(i) ==
    IF i = 1 THEN "--- Information 1 (Relevance: 0.90) ---"
    ELSE "--- Information 2 (Relevance: 0.90) ---"

RECURSIVE ResultBlocks(_, _)
\* lines 348-354: one labelled block per result, joined by blank lines
ResultBlocks(results, i) ==
    IF i > Len(results) THEN <<>>
    ELSE (IF i > 1 THEN <<"LF", "LF">> ELSE <<>>)
         \o <<InformationLabel(i), "LF", results[i]>>
         \o ResultBlocks(results, i + 1)

\* query_knowledge_base, lines 328-359, given the answer of the service:
\* every exception inside the function gives the error message
query_knowledge_base(answer) ==
    IF answer.raised THEN KB_ERROR
    ELSE IF answer.results = <<>> THEN KB_EMPTY
    ELSE ResultBlocks(answer.results, 1)

\* a plausible slip: the exception of the retrieval is not caught
QueryKnowledgeBaseRaises ==
    /\ pc = "knowledge"
    /\ \E answer \in RetrievalAnswers :
          /\ ~env.KNOWLEDGE_BASE_ID => answer.raised
          /\ IF answer.raised
             THEN /\ Raise("knowledge_retrieval")
                  /\ UNCHANGED <<cb, stages>>
             ELSE /\ loc' = [loc EXCEPT
                        !.kb_query = EnhancedQuery(loc.email_content, loc.credit_score),
                        !.retrieval = answer,
                        !.knowledge_results = query_knowledge_base(answer)]
                  /\ pc' = "bedrock"
                  /\ cb' = CbInit
                  /\ Stage("knowledge_retrieval")
    /\ UNCHANGED <<probe, env, event, refIdx, dl, response, table>>

\* lambda_handler line 546.  With no knowledge-base id the call of retrieve
\* raises (parameter validation).
QueryKnowledgeBase ==
    /\ pc = "knowledge"
    /\ \E answer \in RetrievalAnswers :
          /\ ~env.KNOWLEDGE_BASE_ID => answer.raised
          /\ loc' = [loc EXCEPT
                !.kb_query = EnhancedQuery(loc.email_content, loc.credit_score),
                !.retrieval = answer,
                !.knowledge_results = query_knowledge_base(answer)]
    /\ pc' = "bedrock"
    /\ cb' = CbInit
    /\ Stage("knowledge_retrieval")
    /\ UNCHANGED <<probe, env, event, refIdx, dl, response, table>>

SuggestedText ==
    <<"Dear ", "Valued Customer", ",", "BSN", "We can help", "BEL", "LF", "Regards">>
ExplanationText == <<"Clear request", "LF", "BULLET", "no risk">>

CountRange == (0 - 1)..MaxCount

\* factors mappings the model returns in the pipeline
PipelineFactors ==
    {<<>>}
    \cup { n :> c : n \in {"urgency", "no_knowledge"}, c \in CountRange }
    \cup { "multiple_topics" :> c : c \in 0..(MaxCount + 1) }
    \cup { "final_score" :> 1,
           [no_knowledge |-> 1, unclear_info |-> 1] }

AllKeys ==
    {"factors", "confidence_explanation", "intent", "category", "suggested_response"}

\* texts the model returns in the pipeline
ModelOutputs ==
    { MkOutput("object", AllKeys, {}, TRUE, f, ExplanationText, <<"Refund">>,
               <<"Payment">>, SuggestedText) : f \in PipelineFactors }
    \cup
    { MkOutput("object", {}, {}, TRUE, <<>>, <<>>, <<>>, <<>>, <<>>),
      MkOutput("object", AllKeys, {}, TRUE, <<>>, ExplanationText, <<"Fraud">>,
               <<"Mortgage_Fraud">>, SuggestedText),
      MkOutput("object", {"suggested_response"}, {"suggested_response"}, TRUE,
               <<>>, <<>>, <<>>, <<>>, <<>>),
      MkOutput("object", {"factors"}, {}, FALSE, <<>>, <<>>, <<>>, <<>>, <<>>),
      MkOutput("nondict", {}, {}, FALSE, <<>>, <<>>, <<>>, <<>>, <<>>),
      MkOutput("garbage", {}, {}, FALSE, <<>>, <<>>, <<>>, <<>>, <<>>),
      MkOutput("garbage", {"category", "suggested_response"}, {}, FALSE,
               [urgency |-> 1, multiple_topics |-> 2], <<>>, <<>>,
               <<"Insurance">>, SuggestedText) }

\* a plausible slip: a failed candidate is tried again instead of the next
CallBedrockInvokeRetry ==
    /\ pc = "bedrock"
    /\ cb.idx <= Len(MODEL_IDS)
    /\ Len(cb.invoked) < 2 * Len(MODEL_IDS)
    /\ \/ /\ cb' = [cb EXCEPT !.invoked = Append(@, MODEL_IDS[cb.idx]),
                              !.failures = @ + 1]
          /\ UNCHANGED <<pc, stages>>
       \/ \E text \in ModelOutputs :
             LET parsed == parse_bedrock_response(text)
                 first == IF cb.firstReturned = 0 THEN cb.idx ELSE cb.firstReturned
             IN  IF parsed.raised
                 THEN /\ cb' = [cb EXCEPT !.invoked = Append(@, MODEL_IDS[cb.idx]),
                                          !.failures = @ + 1,
                                          !.idx = @ + 1,
                                          !.firstReturned = first]
                      /\ UNCHANGED <<pc, stages>>
                 ELSE /\ cb' = [cb EXCEPT !.invoked = Append(@, MODEL_IDS[cb.idx]),
                                          !.firstReturned = first,
                                          !.success = TRUE,
                                          !.data = parsed.data,
                                          !.model_used = MODEL_IDS[cb.idx]]
                      /\ pc' = "score"
                      /\ Stage("model_invocation")
    /\ UNCHANGED <<probe, env, event, loc, refIdx, dl, response, table>>

\* call_bedrock, lines 500-525: one turn of the loop.  firstReturned notes
\* the first candidate whose invoke_model call returned a readable text.
CallBedrockInvoke ==
    /\ pc = "bedrock"
    /\ cb.idx <= Len(MODEL_IDS)
    /\ \/ \* invoke_model raises, or its response body cannot be read
          /\ cb' = [cb EXCEPT !.invoked = Append(@, MODEL_IDS[cb.idx]),
                              !.failures = @ + 1,
                              !.idx = @ + 1]
          /\ UNCHANGED <<pc, stages>>
       \/ \E text \in ModelOutputs :
             LET parsed == parse_bedrock_response(text)
                 first == IF cb.firstReturned = 0 THEN cb.idx ELSE cb.firstReturned
             IN  IF parsed.raised
                 THEN /\ cb' = [cb EXCEPT !.invoked = Append(@, MODEL_IDS[cb.idx]),
                                          !.failures = @ + 1,
                                          !.idx = @ + 1,
                                          !.firstReturned = first]
                      /\ UNCHANGED <<pc, stages>>
                 ELSE /\ cb' = [cb EXCEPT !.invoked = Append(@, MODEL_IDS[cb.idx]),
                                          !.firstReturned = first,
                                          !.success = TRUE,
                                          !.data = parsed.data,
                                          !.model_used = MODEL_IDS[cb.idx]]
                      /\ pc' = "score"
                      /\ Stage("model_invocation")
    /\ UNCHANGED <<probe, env, event, loc, refIdx, dl, response, table>>

\* line 528: every candidate failed
CallBedrockExhausted ==
    /\ pc = "bedrock"
    /\ cb.idx > Len(MODEL_IDS)
    /\ pc' = "build_error"
    /\ Stage("model_invocation")
    /\ UNCHANGED <<probe, env, event, loc, refIdx, dl, cb, response, table>>

\* lines 564-572: the factors of the parsed data and the scorer
Score ==
    /\ pc = "score"
    /\ IF cb.data.shape # "object"
       THEN Raise("scoring") /\ UNCHANGED stages        \* data.get: AttributeError
       ELSE IF "factors" \in cb.data.present /\ ~cb.data.factorsIsDict
       THEN Raise("scoring") /\ UNCHANGED stages        \* factors.items()
       ELSE /\ loc' = [loc EXCEPT !.confidence_calculation =
                          calculate_confidence_score(DataGet(cb.data, "factors", <<>>))]
            /\ pc' = "build"
            /\ Stage("scoring")
    /\ UNCHANGED <<probe, env, event, refIdx, dl, cb, response, table>>

\* lines 577-591
BuildSuccessResponse ==
    /\ pc = "build"
    /\ IF IsNone(cd.ContactId)
       THEN Raise("record_building") /\ UNCHANGED <<response, stages>>  \* KeyError
       ELSE /\ response' = build_response(
                  [ contactId |-> cd.ContactId,
                    customer_name_text |-> loc.customer_name,
                    confidence_score |-> loc.confidence_calculation["final_score"],
                    confidence_explanation |->
                        DataGet(cb.data, "confidence_explanation",
                                <<"Score analysis unavailable">>)
                        \o <<" ", "CALC">>,
                    suggested_response |-> DataGet(cb.data, "suggested_response", <<>>),
                    intent |-> DataGet(cb.data, "intent", <<>>),
                    category |-> DataGet(cb.data, "category", <<"General_Inquiry">>),
                    credit_available |-> ~IsNone(loc.credit_score),
                    credit_value |-> loc.credit_score,
                    spending_profile |-> loc.spending_profile,
                    service_level |-> loc.service_level,
                    add_info |-> loc.add_info,
                    model_used |-> Some(cb.model_used) ])
            /\ pc' = "save"
            /\ loc' = loc
            /\ Stage("record_building")
    /\ UNCHANGED <<probe, env, event, refIdx, dl, cb, table>>

\* a plausible slip: the failure branch returns its record without the write
BuildErrorResponseNoSave ==
    /\ pc = "build_error"
    /\ IF IsNone(cd.ContactId)
       THEN Raise("record_building") /\ UNCHANGED <<response, stages>>  \* KeyError
       ELSE /\ response' = build_response(
                  [ contactId |-> cd.ContactId,
                    customer_name_text |-> loc.customer_name,
                    confidence_score |-> 0,
                    confidence_explanation |->
                        <<"Processing error detected - unable to analyze email content.",
                          "LF", "Route to agent for manual review.">>,
                    intent |-> <<"General Inquiry">>,
                    category |-> <<"General_Inquiry">>,
                    credit_available |-> ~IsNone(loc.credit_score),
                    credit_value |-> loc.credit_score,
                    spending_profile |-> loc.spending_profile,
                    service_level |-> loc.service_level,
                    add_info |-> loc.add_info,
                    model_used |-> Some(NoModel) ])
            /\ pc' = "return"
            /\ loc' = loc
            /\ Stage("record_building")
    /\ UNCHANGED <<probe, env, event, refIdx, dl, cb, table>>

\* lines 592-607
BuildErrorResponse ==
    /\ pc = "build_error"
    /\ IF IsNone(cd.ContactId)
       THEN Raise("record_building") /\ UNCHANGED <<response, stages>>  \* KeyError
       ELSE /\ response' = build_response(
                  [ contactId |-> cd.ContactId,
                    customer_name_text |-> loc.customer_name,
                    confidence_score |-> 0,
                    confidence_explanation |->
                        <<"Processing error detected - unable to analyze email content.",
                          "LF", "Route to agent for manual review.">>,
                    intent |-> <<"General Inquiry">>,
                    category |-> <<"General_Inquiry">>,
                    credit_available |-> ~IsNone(loc.credit_score),
                    credit_value |-> loc.credit_score,
                    spending_profile |-> loc.spending_profile,
                    service_level |-> loc.service_level,
                    add_info |-> loc.add_info,
                    model_used |-> Some(NoModel) ])
            /\ pc' = "save"
            /\ loc' = loc
            /\ Stage("record_building")
    /\ UNCHANGED <<probe, env, event, refIdx, dl, cb, table>>

\* times at which a write happens (epoch seconds)
Clock == {1700000000, 1700000060}

\* a plausible slip: the write is not guarded, its exception reaches the
\* handler
SaveToDynamoDBUnguarded ==
    /\ pc = "save"
    /\ IF ~env.DYNAMODB_TABLE_NAME
       THEN /\ UNCHANGED <<response, table, loc>>
            /\ pc' = "return"
            /\ Stage("persistence_write")
       ELSE \E now \in Clock :
               /\ response' = response @@ [ttl |-> now + RETENTION]
               /\ \/ /\ table' = (Val(response.contactId) :> response') @@ table
                     /\ pc' = "return"
                     /\ loc' = loc
                     /\ Stage("persistence_write")
                  \/ /\ table' = table
                     /\ Raise("persistence_write")
                     /\ UNCHANGED stages
    /\ UNCHANGED <<probe, env, event, refIdx, dl, cb>>

\* a plausible slip: the test of the store name is missing and the ttl is
\* the write time itself
SaveToDynamoDBAlways ==
    /\ pc = "save"
    /\ \E now \in Clock :
          /\ response' = response @@ [ttl |-> now]
          /\ \/ table' = (Val(response.contactId) :> response') @@ table
             \/ table' = table
    /\ pc' = "return"
    /\ Stage("persistence_write")
    /\ UNCHANGED <<probe, env, event, loc, refIdx, dl, cb>>

\* save_to_dynamodb, lines 210-225, called at line 610.  The ttl is set on
\* the record itself, before the write; a failed write is swallowed.
SaveToDynamoDB ==
    /\ pc = "save"
    /\ IF ~env.DYNAMODB_TABLE_NAME
       THEN UNCHANGED <<response, table>>
       ELSE \E now \in Clock :
               /\ response' = response @@ [ttl |-> now + RETENTION]
               /\ \/ table' = (Val(response.contactId) :> response') @@ table
                  \/ table' = table                     \* put_item raises
    /\ pc' = "return"
    /\ Stage("persistence_write")
    /\ UNCHANGED <<probe, env, event, loc, refIdx, dl, cb>>

\* line 615
ReturnResponse ==
    /\ pc = "return"
    /\ pc' = "returned"
    /\ Stage("return")
    /\ UNCHANGED <<probe, env, event, loc, refIdx, dl, cb, response, table>>

\* a plausible slip: no top-level handler, the exception leaves the function
HandleExceptionMissing ==
    /\ pc = "except"
    /\ pc' = "propagated"
    /\ UNCHANGED <<probe, env, event, loc, refIdx, dl, cb, response, table, stages>>

\* lines 617-630: the top-level handler builds the degraded record and
\* returns it; it does not write it.
HandleException ==
    /\ pc = "except"
    /\ response' = build_response(
          [ confidence_explanation |->
                <<"System error encountered: ", "ERR", "...", "LF",
                  "Immediate agent review required for technical issue resolution.">>,
            intent |-> <<"General Inquiry">>,
            category |-> <<"General_Inquiry">> ])
    /\ pc' = "returned"
    /\ Stage("error_return")
    /\ UNCHANGED <<probe, env, event, loc, refIdx, dl, cb, table>>

-----------------------------------------------------------------------------
(* Inputs of the pipeline *)

DefaultEnv ==
    [ AWS_REGION |-> <<"us", "-", "east">>, KNOWLEDGE_BASE_ID |-> TRUE,
      DYNAMODB_TABLE_NAME |-> TRUE ]

OtherEnvs ==
    { [DefaultEnv EXCEPT !.AWS_REGION = <<"eu", "-", "west">>],
      [DefaultEnv EXCEPT !.AWS_REGION = <<"ap", "-", "south">>],
      [DefaultEnv EXCEPT !.KNOWLEDGE_BASE_ID = FALSE],
      [DefaultEnv EXCEPT !.DYNAMODB_TABLE_NAME = FALSE] }

MkContactData(ContactId, attrsIsDict, Attributes, SegmentAttributes, InstanceARN, refsIsDict, References) ==
    [ ContactId |-> ContactId, attrsIsDict |-> attrsIsDict,
      Attributes |-> Attributes, SegmentAttributes |-> SegmentAttributes,
      InstanceARN |-> InstanceARN, refsIsDict |-> refsIsDict,
      References |-> References ]

BodyText == <<"Hello", "CR", "LF", "BEL", "world">>
SubjectText == <<"Refund status">>
ArnOk == <<"arn:aws:connect:instance", "/", "i-1">>
ArnNoSlash == <<"arn:aws:connect">>

EmailRef == [key |-> <<"ref1">>, isDict |-> TRUE, Type |-> "EMAIL_MESSAGE",
             Value |-> Some(<<"file-1">>)]
EmailRefNoId == [key |-> <<>>, isDict |-> TRUE, Type |-> "EMAIL_MESSAGE",
                 Value |-> None]
OtherRef == [key |-> <<"ref2">>, isDict |-> TRUE, Type |-> "ATTACHMENT",
             Value |-> Some(<<"file-2">>)]

OptBody == {<<>>, [body |-> BodyText]}
OptSubject == {<<>>, "connect:EmailSubject" :> SubjectText}

NoContactData == [hasContactData |-> FALSE, ContactData |-> <<>>]
MkEvent(c) == [hasContactData |-> TRUE, ContactData |-> c]

\* events of the handler: one without contact data, events that differ in
\* what the extractor reads, events that differ in their attributes
HandlerEvents ==
    {NoContactData}
    \cup
    { MkEvent(MkContactData(cid, TRUE, body, subject, arn, TRUE, refs)) :
          cid \in {None, Some("c1")}, body \in OptBody, subject \in OptSubject,
          arn \in {None, Some(ArnOk)}, refs \in {<<>>, <<OtherRef, EmailRef>>} }
    \cup
    { MkEvent(MkContactData(Some("c1"), TRUE, [body |-> BodyText] @@ credit @@ name,
                            <<>>, Some(ArnOk), TRUE, <<>>)) :
          credit \in {<<>>, [CreditScore |-> <<"700">>], [CreditScore |-> <<"0">>],
                      [CreditScore |-> <<"abc">>]},
          name \in {<<>>, [CustomerName |-> <<" ", "Jane Doe">>]} }
    \cup
    { MkEvent(MkContactData(Some("c1"), FALSE, <<>>, <<>>, Some(ArnOk), TRUE, <<>>)) }

BaseEvent ==
    MkEvent(MkContactData(Some("c1"), TRUE, [body |-> BodyText], <<>>,
                          Some(ArnOk), TRUE, <<>>))

PipelineStart ==
    /\ probe = NoProbe
    /\ loc = LocInit
    /\ refIdx = 0
    /\ dl = DlIdle
    /\ cb = CbInit
    /\ response = NoResponse
    /\ table = <<>>
    /\ stages = <<>>

Init ==
    /\ \/ env = DefaultEnv /\ event \in HandlerEvents
       \/ env \in OtherEnvs /\ event = BaseEvent
    /\ pc = "entry"
    /\ PipelineStart

Next ==
    \/ HandlerEntry
    \/ ExtractEmailContentBegin
    \/ WalkReferenceSkip
    \/ GetAttachedFile
    \/ DownloadValidate
    \/ DownloadGetObject
    \/ DownloadHttpFallback
    \/ DownloadFinish
    \/ ExtractEmailContentFallback
    \/ ExtractAttributes
    \/ QueryKnowledgeBase
    \/ CallBedrockInvoke
    \/ CallBedrockExhausted
    \/ Score
    \/ BuildSuccessResponse
    \/ BuildErrorResponse
    \/ SaveToDynamoDB
    \/ ReturnResponse
    \/ HandleException

Spec == Init /\ [][Next]_vars

-----------------------------------------------------------------------------
(* SpecBedrock: call_bedrock alone, in every environment.  The loop is the *)
(* body of one synchronous call, so it keeps running until it returns:     *)
(* weak fairness of its steps.                                             *)

InitBedrock ==
    /\ env \in {DefaultEnv} \cup OtherEnvs
    /\ event = BaseEvent
    /\ pc = "bedrock"
    /\ PipelineStart

NextBedrock ==
    \/ CallBedrockInvoke
    \/ CallBedrockExhausted

SpecBedrock == InitBedrock /\ [][NextBedrock]_vars /\ WF_vars(NextBedrock)

-----------------------------------------------------------------------------
(* SpecExtract: extract_email_content alone, over more event shapes *)

RefKinds == {EmailRef, EmailRefNoId, OtherRef}

RefLists == UNION { [1..n -> RefKinds] : n \in 0..MaxRefs }

ExtractEvents ==
    { MkEvent(MkContactData(cid, TRUE, body, subject, arn, TRUE, refs)) :
          cid \in {None, Some("c1")}, body \in OptBody, subject \in OptSubject,
          arn \in {None, Some(ArnOk), Some(ArnNoSlash)}, refs \in RefLists }
    \cup
    { MkEvent(MkContactData(Some("c1"), attrsIsDict, <<>>, subject, Some(ArnOk),
                            refsIsDict, <<>>)) :
          attrsIsDict \in BOOLEAN, refsIsDict \in BOOLEAN, subject \in OptSubject }

InitExtract ==
    /\ env = DefaultEnv
    /\ event \in ExtractEvents
    /\ pc = "extract"
    /\ PipelineStart

NextExtract ==
    \/ ExtractEmailContentBegin
    \/ WalkReferenceSkip
    \/ GetAttachedFile
    \/ DownloadValidate
    \/ DownloadGetObject
    \/ DownloadHttpFallback
    \/ DownloadFinish
    \/ ExtractEmailContentFallback

SpecExtract == InitExtract /\ [][NextExtract]_vars

-----------------------------------------------------------------------------
(* SpecUrl: validate_aws_url applied to every url of a bounded set *)

HostAtoms == {"b", ".", "-", "s3", "S3"}

HostHeads == UNION { [1..n -> HostAtoms] : n \in 0..MaxHostLen }

HostTails ==
    { <<>>,
      AwsSuffix,
      <<"amazonaws", ".", "com">>,
      <<".", "evil", ".", "com">>,
      AwsSuffix \o <<".", "evil">> }

UrlSchemes == {"https", "HTTPS", "http"}

ProbeUrls ==
    {NoUrl} \cup
    { MkUrl(s, h \o t, <<"bkt", "key">>) :
          s \in UrlSchemes, h \in HostHeads, t \in HostTails }

InitUrl ==
    /\ probe \in { [fn |-> "validate_aws_url", arg |-> u, ret |-> <<>>, done |-> FALSE] :
                       u \in ProbeUrls }
    /\ PipelineIdle

ApplyValidate ==
    /\ probe.fn = "validate_aws_url"
    /\ ~probe.done
    /\ probe' = [probe EXCEPT !.ret = validate_aws_url(probe.arg), !.done = TRUE]
    /\ UNCHANGED pipelineVars

NextUrl == ApplyValidate

SpecUrl == InitUrl /\ [][NextUrl]_vars

-----------------------------------------------------------------------------
(* SpecScore: calculate_confidence_score applied to every factors mapping  *)
(* of a bounded set: recognized names with counts, and names the table     *)
(* does not know.                                                          *)

UnrecognizedFactors == {"final_score", "total_deduction", "sentiment"}


ProbeFactors ==
    { r @@ u :
        r \in UNION { [S -> CountRange] : S \in SUBSET RecognizedFactors },
        u \in UNION { [S -> {1}] : S \in SUBSET UnrecognizedFactors } }

InitScore ==
    /\ probe \in { [fn |-> "calculate_confidence_score", arg |-> f,
                    ret |-> <<>>, done |-> FALSE] : f \in ProbeFactors }
    /\ PipelineIdle

ApplyScore ==
    /\ probe.fn = "calculate_confidence_score"
    /\ ~probe.done
    /\ probe' = [probe EXCEPT !.ret = calculate_confidence_score(probe.arg),
                              !.done = TRUE]
    /\ UNCHANGED pipelineVars

NextScore == ApplyScore

SpecScore == InitScore /\ [][NextScore]_vars

-----------------------------------------------------------------------------
(* SpecBuild: build_response alone *)

\* longest suggested response given to the builder
MaxTextLen == 3

SalutationAtoms == {"Dear ", "Valued Customer", ",", "BSN", "Hello"}

SuggestedTexts == UNION { [1..n -> SalutationAtoms] : n \in 0..MaxTextLen }

CustomerNames ==
    { None, Some(<<>>), Some(PLACEHOLDER_NAME), Some(<<"Jane Doe">>),
      Some(<<"Dear ", "Valued Customer", " Jr">>) }

BuildKwargs ==
    { [customer_name_text |-> n, suggested_response |-> t] :
          n \in CustomerNames, t \in SuggestedTexts }
    \cup { [customer_name_text |-> n] : n \in CustomerNames }

InitBuild ==
    /\ probe \in { [fn |-> "build_response", arg |-> k, ret |-> <<>>,
                    done |-> FALSE] : k \in BuildKwargs }
    /\ PipelineIdle

ApplyBuild ==
    /\ probe.fn = "build_response"
    /\ ~probe.done
    /\ probe' = [probe EXCEPT !.ret = build_response(probe.arg), !.done = TRUE]
    /\ UNCHANGED pipelineVars

NextBuild == ApplyBuild

SpecBuild == InitBuild /\ [][NextBuild]_vars

-----------------------------------------------------------------------------
(* SpecParse: parse_bedrock_response and its pre-pass alone *)

\* longest content of a JSON string value
MaxValueLen == 2

\* what a JSON string value is made of: "c" a plain character, "EBS" an
\* escaped backslash, "EQ" an escaped quote, "EN" an escaped newline
StringAtoms == {"c", "EBS", "EQ", "EN"}

JsonValues == UNION { [1..n -> StringAtoms] : n \in 0..MaxValueLen }

\* the characters of the JSON string with content v
RenderString(v) ==
    <<"Q">>
    \o FlatMap(v, [EBS |-> <<"BS", "BS">>, EQ |-> <<"BS", "Q">>,
                   EN |-> <<"BS", "n">>])
    \o <<"Q">>

\* the text of a JSON object of two members, one character or one
\* character and a line break between them
RenderObject(doc) ==
    <<"{">> \o RenderString(<<"c">>) \o <<":">> \o RenderString(doc.first)
    \o doc.sep
    \o RenderString(<<"c">>) \o <<":">> \o RenderString(doc.second) \o <<"}">>

JsonDocs ==
    [ first : JsonValues, second : JsonValues,
      sep : {<<",">>, <<",", "LF">>}, fenced : BOOLEAN ]

\* the response text of a model that answers with the object, fenced or not
ResponseTextOf(doc) ==
    IF doc.fenced
    THEN <<"FENCE_JSON", "LF">> \o RenderObject(doc) \o <<"LF", "FENCE">>
    ELSE RenderObject(doc)

TextFields == {"confidence_explanation", "intent", "category", "suggested_response"}

\* what the patterns of the fallback match in a text that is not JSON
MatchedFactors ==
    { <<>>, [urgency |-> 1], [multiple_topics |-> 2],
      [urgency |-> 1, multiple_topics |-> 2],
      [no_knowledge |-> 1, unclear_info |-> 1, premium_complaints |-> 1,
       angry_frustrated_tone |-> 1, urgency |-> 1, multiple_topics |-> 0] }

ParseTexts ==
    { MkOutput("object", present, nonString \cap present, TRUE, f,
               ExplanationText, <<"Refund">>, <<"Payment">>, suggested) :
          present \in SUBSET AllKeys,
          nonString \in {{}, {"suggested_response"}},
          f \in {<<>>, [urgency |-> 1]},
          suggested \in {SuggestedText, <<"Dear ", "Jane", ",">>} }
    \cup
    { WithDigits(MkOutput("garbage", present, {}, FALSE, f, ExplanationText,
                          <<"Refund">>, <<"Payment">>, SuggestedText), d) :
          present \in SUBSET TextFields, f \in MatchedFactors,
          d \in {1, INT_MAX_STR_DIGITS + 1} }

MaxRawLen == 5

\* the characters the pre-pass tells apart: a double quote, a backslash, a
\* line feed, a carriage return, any other character
RawAtoms == {"Q", "BS", "LF", "CR", "c"}

\* any text, JSON or not
RawTexts == UNION { [1..n -> RawAtoms] : n \in 0..MaxRawLen }

InitParse ==
    /\ \/ probe \in { [fn |-> "parse_bedrock_response", arg |-> t, ret |-> <<>>,
                       done |-> FALSE] : t \in ParseTexts }
       \/ probe \in { [fn |-> "fix_newlines_text", arg |-> t, ret |-> <<>>,
                       done |-> FALSE] : t \in RawTexts }
       \/ probe \in { [fn |-> "fix_newlines", arg |-> d, ret |-> <<>>,
                       done |-> FALSE] : d \in JsonDocs }
    /\ PipelineIdle

ApplyParse ==
    /\ probe.fn = "parse_bedrock_response"
    /\ ~probe.done
    /\ probe' = [probe EXCEPT !.ret = parse_bedrock_response(probe.arg),
                              !.done = TRUE]
    /\ UNCHANGED pipelineVars

\* lines 421-443: the text json.loads is given
ApplyFixNewlines ==
    /\ probe.fn = "fix_newlines"
    /\ ~probe.done
    /\ probe' = [probe EXCEPT
          !.ret = fix_newlines(CleanResponseText(ResponseTextOf(probe.arg))),
          !.done = TRUE]
    /\ UNCHANGED pipelineVars

\* lines 429-441: the pre-pass on any text
ApplyFixNewlinesText ==
    /\ probe.fn = "fix_newlines_text"
    /\ ~probe.done
    /\ probe' = [probe EXCEPT !.ret = fix_newlines(probe.arg), !.done = TRUE]
    /\ UNCHANGED pipelineVars

NextParse ==
    \/ ApplyParse
    \/ ApplyFixNewlines
    \/ ApplyFixNewlinesText

SpecParse == InitParse /\ [][NextParse]_vars

-----------------------------------------------------------------------------
(* The key-value store and the read side                                   *)
(* (src/backend/api/runtime/query_tempo_storage.py), with the tail of the  *)
(* email handler that writes to the store.                                 *)
(*                                                                         *)
(* A number is written as a decimal coefficient and exponent: Num(m, e)    *)
(* is m * 10^e, m no multiple of 10; it is an integer iff e >= 0.  A       *)
(* Python value carries its type: Py("int", n), Py("float", n),            *)
(* Py("Decimal", n), Py("str", text), Py("bool", b), Py("none", <<>>),     *)
(* Py("dict", mapping), Py("list", sequence).                              *)

Num(m, e) == [mant |-> m, exp |-> e]
Py(type, v) ==
    CASE type \in {"int", "float", "Decimal"} -> [py |-> type, n |-> v]
      [] type = "str" -> [py |-> type, s |-> v]
      [] type = "bool" -> [py |-> type, b |-> v]
      [] type = "dict" -> [py |-> type, m |-> v]
      [] type = "list" -> [py |-> type, l |-> v]
      [] OTHER -> [py |-> "none"]

RECURSIVE ToNum(_, _)
\* the number n * 10^e of a non-negative integer n, normalised
ToNum(n, e) == IF n # 0 /\ n % 10 = 0 THEN ToNum(n \div 10, e + 1) ELSE Num(n, e)

RECURSIVE DigitsOf(_)
DigitsOf(m) == IF m < 10 THEN 1 ELSE 1 + DigitsOf(m \div 10)

\* the digits of the integer part of a number
IntegerDigits(n) == Max(DigitsOf(n.mant) + n.exp, 1)

\* the precision of the context the store's serializer converts numbers in
STORE_PRECISION == 38
\* the precision of the default decimal context, in which `obj % 1` runs
DECIMAL_PRECISION == 28

\* The Python dict build_response returns, each value with its type.
\* intent is whatever JSON value the model gave and is typed already.
FieldPy(name, value) ==
    CASE name \in {"confidence_score", "ttl"} -> Py("int", value)
      [] name = "credit_value" ->
            IF IsNone(value) THEN Py("none", <<>>) ELSE Py("int", Val(value))
      [] name = "credit_available" -> Py("bool", value)
      [] name = "intent" -> value
      [] name \in {"contactId", "customer_name_text", "spending_profile",
                   "service_level", "add_info", "model_used"} ->
            IF IsNone(value) THEN Py("none", <<>>) ELSE Py("str", Val(value))
      [] OTHER -> Py("str", value)

PyDict(record) == Py("dict", [k \in DOMAIN record |-> FieldPy(k, record[k])])

RECURSIVE Storable(_)
\* put_item, line 219: the serializer takes int, Decimal, str, bool, None,
\* dict and list; a float raises TypeError, a number of more digits than the
\* store's precision raises
Storable(obj) ==
    CASE obj.py \in {"int", "Decimal"} ->
            DigitsOf(obj.n.mant) + Max(obj.n.exp, 0) <= STORE_PRECISION
      [] obj.py = "float" -> FALSE
      [] obj.py = "dict" -> \A k \in DOMAIN obj.m : Storable(obj.m[k])
      [] obj.py = "list" -> \A i \in DOMAIN obj.l : Storable(obj.l[i])
      [] OTHER -> TRUE

RECURSIVE Stored(_)
\* what get_item gives back for a value put_item took: every number is a
\* Decimal, at every level
Stored(obj) ==
    CASE obj.py \in {"int", "Decimal"} -> Py("Decimal", obj.n)
      [] obj.py = "dict" -> Py("dict", [k \in DOMAIN obj.m |-> Stored(obj.m[k])])
      [] obj.py = "list" -> Py("list", [i \in DOMAIN obj.l |-> Stored(obj.l[i])])
      [] OTHER -> obj

RECURSIVE ConvertRaises(_)
\* query_tempo_storage.py line 12: obj % 1 raises InvalidOperation when the
\* integer part has more digits than the context's precision
ConvertRaises(obj) ==
    CASE obj.py = "Decimal" -> IntegerDigits(obj.n) > DECIMAL_PRECISION
      [] obj.py = "dict" -> \E k \in DOMAIN obj.m : ConvertRaises(obj.m[k])
      [] obj.py = "list" -> \E i \in DOMAIN obj.l : ConvertRaises(obj.l[i])
      [] OTHER -> FALSE

RECURSIVE convert_decimals(_)
\* query_tempo_storage.py lines 6-13
convert_decimals(obj) ==
    CASE obj.py = "dict" ->
            Py("dict", [k \in DOMAIN obj.m |-> convert_decimals(obj.m[k])])
      [] obj.py = "list" ->
            Py("list", [i \in DOMAIN obj.l |-> convert_decimals(obj.l[i])])
      [] obj.py = "Decimal" ->
            IF obj.n.exp >= 0 THEN Py("int", obj.n) ELSE Py("float", obj.n)
      [] OTHER -> obj

-----------------------------------------------------------------------------
(* SpecStore: email invocations and lookups running concurrently on one    *)
(* store.  Each process has its own event, position, locals and record;    *)
(* `table` is the only state they share.  What an email invocation does    *)
(* before it builds its record is local to it: the results of those stages *)
(* are inputs here.                                                        *)

Invocations == {"e1", "e2"}
Lookups == {"q1"}

ContactIds == {"c1", "c2"}

\* what extract_attribute gave for CreditScore: nothing, 700, or an integer
\* of 29 digits
CreditScores == {None, Some(Num(7, 2)), Some(Num(1, 28))}

\* the intent the model gave: a string, or an object holding a number
StoreIntent(kind) ==
    IF kind = "str" THEN Py("str", <<"Refund">>)
    ELSE Py("dict", [priority |-> Py("int", Num(2, 0)),
                     topics |-> Py("list", <<Py("int", Num(3, 0))>>)])

InvocationEvents ==
    { [ContactId |-> Some(c), credit_score |-> s] : c \in ContactIds, s \in CreditScores }

\* the events of the read side: ContactId absent, null, empty, or an id
LookupEvents ==
    { [hasContactId |-> FALSE, ContactId |-> None] }
    \cup { [hasContactId |-> TRUE, ContactId |-> c] :
              c \in {None, Some("")} \cup { Some(c) : c \in ContactIds } }

InitStore ==
    /\ probe = NoProbe
    /\ env = DefaultEnv
    /\ \E evs \in [Invocations -> InvocationEvents] :
          event = [p \in Invocations \cup Lookups |->
                      IF p \in Invocations THEN evs[p]
                      ELSE [hasContactId |-> FALSE, ContactId |-> None]]
    /\ pc = [p \in Invocations \cup Lookups |-> IF p \in Invocations THEN "build" ELSE "idle"]
    /\ loc = [p \in Invocations \cup Lookups |-> None]
    /\ response = [p \in Invocations \cup Lookups |-> NoResponse]
    /\ table = <<>>
    /\ refIdx = 0
    /\ dl = <<>>
    /\ cb = <<>>
    /\ stages = <<>>

storeIdle == <<probe, env, refIdx, dl, cb, stages>>

\* lambda_handler lines 577-591: the record is built from the invocation's
\* own event and stage results
InvocationBuild ==
    \E p \in Invocations :
       /\ pc[p] = "build"
       /\ \E kind \in {"str", "dict"} :
             response' = [response EXCEPT ![p] = build_response(
                 [ contactId |-> event[p].ContactId,
                   customer_name_text |-> Some(PLACEHOLDER_NAME),
                   confidence_score |-> Num(85, 0),
                   confidence_explanation |-> ExplanationText,
                   suggested_response |-> SuggestedText,
                   intent |-> StoreIntent(kind),
                   category |-> <<"Payment">>,
                   credit_available |-> ~IsNone(event[p].credit_score),
                   credit_value |-> event[p].credit_score,
                   model_used |-> Some(NEWER_MODEL) ])]
       /\ pc' = [pc EXCEPT ![p] = "save"]
       /\ UNCHANGED <<event, loc, table, storeIdle>>

\* a plausible slip: the record to write sits in a variable the invocations
\* share, so the write takes the record built last by any of them
InvocationSaveShared ==
    \E p \in Invocations, o \in Invocations :
       /\ pc[p] = "save"
       /\ pc[o] # "build"
       /\ \E now \in Clock :
             LET record == response[o] @@ [ttl |-> ToNum(now + RETENTION, 0)]
             IN  /\ response' = [response EXCEPT ![p] = record]
                 /\ table' = (Val(event[p].ContactId) :> Stored(PyDict(record))) @@ table
       /\ pc' = [pc EXCEPT ![p] = "return"]
       /\ UNCHANGED <<event, loc, storeIdle>>

\* save_to_dynamodb, lines 210-225: the ttl is set on the invocation's own
\* record, put_item replaces the whole item under the record's contactId in
\* one step; an exception of the serializer or the service is swallowed
InvocationSave ==
    \E p \in Invocations :
       /\ pc[p] = "save"
       /\ IF ~env.DYNAMODB_TABLE_NAME
          THEN UNCHANGED <<response, table>>
          ELSE \E now \in Clock :
                  LET record == response[p] @@ [ttl |-> ToNum(now + RETENTION, 0)]
                      item == PyDict(record)
                  IN  /\ response' = [response EXCEPT ![p] = record]
                      /\ \/ /\ Storable(item)
                            /\ table' = (Val(record.contactId) :> Stored(item)) @@ table
                         \/ table' = table
       /\ pc' = [pc EXCEPT ![p] = "return"]
       /\ UNCHANGED <<event, loc, storeIdle>>

\* lambda_handler line 615
InvocationReturn ==
    \E p \in Invocations :
       /\ pc[p] = "return"
       /\ pc' = [pc EXCEPT ![p] = "returned"]
       /\ UNCHANGED <<event, loc, response, table, storeIdle>>

\* a request reaches the read side
LookupInvoke ==
    \E q \in Lookups, ev \in LookupEvents :
       /\ pc[q] \in {"idle", "returned", "raised"}
       /\ event' = [event EXCEPT ![q] = ev]
       /\ pc' = [pc EXCEPT ![q] = "entry"]
       /\ loc' = [loc EXCEPT ![q] = None]
       /\ response' = [response EXCEPT ![q] = NoResponse]
       /\ UNCHANGED <<table, storeIdle>>

\* the lookup q ends at position `at` with result `result`, having read `item`
LookupEnd(q, at, result, item) ==
    /\ pc' = [pc EXCEPT ![q] = at]
    /\ response' = [response EXCEPT ![q] = result]
    /\ loc' = [loc EXCEPT ![q] = item]

\* query_tempo_storage.py lambda_handler, lines 26-51, with search_dynamodb
\* (lines 15-19) and convert_decimals.  get_item is its one access to the
\* store.
LookupHandler ==
    \E q \in Lookups :
       /\ pc[q] = "entry"
       /\ LET contact_id == event[q].ContactId
              item == IF Val(contact_id) \in DOMAIN table
                      THEN Some(table[Val(contact_id)]) ELSE None
          IN  IF ~event[q].hasContactId                              \* line 28: KeyError
              THEN LookupEnd(q, "raised", NoResponse, None)
              ELSE IF IsNone(contact_id) \/ Val(contact_id) = ""     \* line 31
              THEN LookupEnd(q, "returned",
                             [statusCode |-> 400, error |-> "contactId is required"], None)
              ELSE \/ LookupEnd(q, "raised", NoResponse, None)       \* get_item raises
                   \/ IF IsNone(item)
                      THEN LookupEnd(q, "returned",
                                     [statusCode |-> 404, error |-> "Item not found"], None)
                      ELSE IF ConvertRaises(Val(item))
                      THEN LookupEnd(q, "raised", NoResponse, item)
                      ELSE LookupEnd(q, "returned",
                                     convert_decimals(Val(item)).m @@ [statusCode |-> 200],
                                     item)
       /\ UNCHANGED <<event, table, storeIdle>>

NextStore ==
    \/ InvocationBuild
    \/ InvocationSave
    \/ InvocationReturn
    \/ LookupInvoke
    \/ LookupHandler

SpecStore == InitStore /\ [][NextStore]_vars

-----------------------------------------------------------------------------
(* Claims about the handler (Spec) *)

Range(seq) == { seq[i] : i \in 1..Len(seq) }

\* C1: for every event and every outcome of the downstream services,
\* lambda_handler returns a record and never lets an exception out; when a
\* stage raised, the returned record has confidence_score 0 and category
\* General_Inquiry.
C1_NeverPropagates ==
    /\ pc # "propagated"
    /\ pc = "returned" => DOMAIN ResponseDefaults \subseteq DOMAIN response
    /\ (pc = "returned" /\ loc.raised # "none")
       => /\ response.confidence_score = 0
          /\ response.category = <<"General_Inquiry">>

\* a record returned after a stage raised
C1_Witness == pc = "returned" /\ loc.raised = "record_building"

\* C2: in every returned record confidence_score is an integer between 0
\* and 100.
C2_ScoreWithinRange ==
    pc = "returned" => response.confidence_score \in 0..100

StageOrder ==
    << "content_extraction", "knowledge_retrieval", "model_invocation",
       "scoring", "record_building", "persistence_write", "return",
       "error_return" >>

StageIndex(name) == CHOOSE i \in 1..Len(StageOrder) : StageOrder[i] = name

\* each stage at most once, in the order of the pipeline, never back
StagesInOrder ==
    \A i, j \in 1..Len(stages) :
        i < j => StageIndex(stages[i]) < StageIndex(stages[j])

AllFailed == "model_invocation" \in Range(stages) /\ ~cb.success

DegradedAndWritten ==
    /\ response.confidence_score = 0
    /\ response.category = <<"General_Inquiry">>
    /\ response.model_used = Some(NoModel)
    /\ "persistence_write" \in Range(stages)
    /\ "return" \in Range(stages)

Scorable(data) ==
    data.shape = "object" /\ ("factors" \in data.present => data.factorsIsDict)

Categories ==
    { <<"Credit_Cards">>, <<"Insurance">>, <<"Loan_Mortgage">>,
      <<"Online_Banking">>, <<"Investment">>, <<"Payment">>,
      <<"General_Inquiry">> }

\* C16: in every returned record category is one of the seven business
\* categories, and General_Inquiry when the model output has no category.
C16_CategoryInClosedSet ==
    pc = "returned"
    => /\ response.category \in Categories
       /\ (cb.success /\ cb.data.shape = "object"
           /\ "category" \notin cb.data.present)
          => response.category = <<"General_Inquiry">>

RecordFields ==
    { "contactId", "customer_name_text", "confidence_score",
      "confidence_explanation", "suggested_response", "intent", "category",
      "credit_available", "credit_value", "spending_profile", "service_level",
      "add_info", "model_used", "confidence_explanation_sbs_formatting",
      "suggested_response_sbs_formatting", "suggested_response_agent" }

\* the model output that was used lacks the field
NotSupplied(field) ==
    cb.success /\ cb.data.shape = "object" /\ field \notin cb.data.present

\* C17: every returned record has every field of the response record, and
\* a field the model output did not supply carries its documented default:
\* the hold-for-agent message, 'General Inquiry', 'General_Inquiry'.
C17_DefaultsForMissingFields ==
    pc = "returned"
    => /\ RecordFields \subseteq DOMAIN response
       /\ NotSupplied("suggested_response")
          => response.suggested_response =
                <<"Thank you for contacting us. An agent will assist you.">>
       /\ NotSupplied("intent") => response.intent = <<"General Inquiry">>
       /\ NotSupplied("category") => response.category = <<"General_Inquiry">>

\* the record without its ttl
WithoutTtl(record) == [k \in DOMAIN record \ {"ttl"} |-> record[k]]

\* one step of the handler from the persistence write on
C19_Step ==
    /\ pc = "save"
       => /\ pc' = "return"
          /\ loc'.raised = "none"
          /\ WithoutTtl(response') = response
          /\ "ttl" \in DOMAIN response' <=> env.DYNAMODB_TABLE_NAME
    /\ pc = "return"
       => /\ pc' = "returned"
          /\ response' = response

\* C19: whether the store write succeeds or raises, save_to_dynamodb
\* returns normally and lambda_handler returns the record it built, with
\* the same ttl; a failed write never leads to the exception handler or to
\* the degraded record.
C19_WriteFailureSwallowed == [][C19_Step]_vars

\* a record returned after its write raised
C19_Witness ==
    /\ pc = "returned"
    /\ env.DYNAMODB_TABLE_NAME
    /\ "persistence_write" \in Range(stages)
    /\ table = <<>>
    /\ "ttl" \in DOMAIN response
    /\ response.confidence_score > 0

\* C20: with no store name configured save_to_dynamodb writes nothing and
\* sets no ttl; otherwise every item written is keyed by the record's
\* contactId and its ttl is the write time plus exactly 259200 seconds.
C20_WriteKeyedWithTtl ==
    /\ ~env.DYNAMODB_TABLE_NAME
       => /\ table = <<>>
          /\ "ttl" \notin DOMAIN response
    /\ \A key \in DOMAIN table :
          /\ table[key].contactId = Some(key)
          /\ table[key].ttl - 259200 \in Clock
          /\ pc \in {"return", "returned"} => response = table[key]

\* an item was written and its record returned
C20_Witness ==
    /\ pc = "returned"
    /\ "c1" \in DOMAIN table
    /\ table["c1"].ttl = 1700000060 + 259200

-----------------------------------------------------------------------------
(* Claims about call_bedrock (SpecBedrock) *)

\* C7: call_bedrock returns success with model_used the first candidate
\* whose invocation returned, and invokes no candidate after that one.
C7_FirstReturnedIsUsed ==
    (pc # "bedrock" /\ cb.firstReturned # 0)
    => /\ cb.success
       /\ cb.model_used = MODEL_IDS[cb.firstReturned]
       /\ Len(cb.invoked) = cb.firstReturned

C8_Order ==
    /\ Len(MODEL_IDS) = 4
    /\ MODEL_IDS[1].prefix # "" /\ MODEL_IDS[1].model = NEWER_MODEL
    /\ MODEL_IDS[2].prefix = "" /\ MODEL_IDS[2].model = NEWER_MODEL
    /\ MODEL_IDS[3].prefix # "" /\ MODEL_IDS[3].model = OLDER_MODEL
    /\ MODEL_IDS[4].prefix = "" /\ MODEL_IDS[4].model = OLDER_MODEL
    \* invoked in list order, each at most once, at most four
    /\ Len(cb.invoked) <= Len(MODEL_IDS)
    /\ cb.invoked = SubSeq(MODEL_IDS, 1, Len(cb.invoked))
    \* a candidate is invoked only after every earlier one failed
    /\ Len(cb.invoked) = cb.failures + (IF cb.success THEN 1 ELSE 0)
    \* all failed: success:false, each candidate tried exactly once
    /\ (pc # "bedrock" /\ ~cb.success) => cb.invoked = MODEL_IDS

\* C8: call_bedrock terminates; it invokes the candidates in the list
\* order (qualified newer, unqualified newer, qualified older, unqualified
\* older), each at most once, a candidate only after every earlier one
\* failed; when all four fail it returns success:false without a retry.
C8_BoundedFallback == []C8_Order /\ <>(pc # "bedrock")

\* all four candidates failed
C8_Witness == pc = "build_error" /\ Len(cb.invoked) = 4 /\ ~cb.success

-----------------------------------------------------------------------------
(* Claims about extract_email_content (SpecExtract) *)

\* C4: safe_download_s3_json reads no object and sends no HTTP request for
\* a url unless validate_aws_url returned true for that url first.
C4_NoFetchBeforeValidation ==
    (dl.s3_read \/ dl.http_request)
    => dl.validated /\ validate_aws_url(dl.url)

\* the HTTP fallback was taken after a direct read failed
C4_Witness == dl.s3_read /\ dl.http_request /\ dl.validated

IsText(t) == \A i \in 1..Len(t) : t[i] \in STRING

\* no body attribute, no subject, and no reference gave content
NoSourceYields ==
    /\ loc.source # "reference"
    /\ ~(cd.attrsIsDict /\ Truthy(Get(cd.Attributes, "body")))
    /\ ~Truthy(Get(cd.SegmentAttributes, "connect:EmailSubject"))

\* C10: extract_email_content never raises: for every event shape and
\* every failure of the file API or the download it returns a string, the
\* sentinel when no source yields content.
C10_ExtractNeverRaises ==
    /\ pc # "except"
    /\ pc = "attributes" => IsText(loc.email_content)
    /\ (pc = "attributes" /\ NoSourceYields) => loc.email_content = SENTINEL

\* the sentinel returned because reading InstanceARN raised
C10_Witness ==
    /\ pc = "attributes"
    /\ IsNone(cd.InstanceARN)
    /\ loc.email_content = SENTINEL

\* C11: for an event with no body attribute, in which no reference yields
\* content, and with an email subject S, extract_email_content returns
\* 'Email Subject: ' followed by S, whether or not the event has an
\* InstanceARN or References.
C11_SubjectFallback ==
    (/\ pc = "attributes"
     /\ cd.attrsIsDict /\ cd.refsIsDict
     /\ ~IsNone(cd.ContactId)
     /\ cd.InstanceARN \in {None, Some(ArnOk)}
     /\ ~Truthy(Get(cd.Attributes, "body"))
     /\ loc.source # "reference"
     /\ Truthy(Get(cd.SegmentAttributes, "connect:EmailSubject")))
    => loc.email_content =
          <<"Email Subject: ">> \o cd.SegmentAttributes["connect:EmailSubject"]

HasBody == cd.attrsIsDict /\ Truthy(Get(cd.Attributes, "body"))

\* C12: the body attribute comes first: when the event has a non-empty
\* Attributes.body, extract_email_content returns that text normalized
\* (no carriage return, no other control character) and never reaches the
\* reference loop, the file API or the object store, even if references
\* and a subject are present.
C12_BodyFirst ==
    HasBody
    => /\ pc \notin {"refs", "download"}
       /\ dl = DlIdle
       /\ pc = "attributes"
          => /\ loc.source = "body"
             /\ loc.email_content = clean_string(cd.Attributes["body"])
             /\ \A i \in 1..Len(loc.email_content) :
                   loc.email_content[i] \notin {"CR", "BEL", "BOM", "NONASCII"}

\* a body returned although an email reference and a subject are present
C12_Witness ==
    /\ pc = "attributes"
    /\ loc.source = "body"
    /\ \E i \in 1..Len(cd.References) : cd.References[i] = EmailRef
    /\ Truthy(Get(cd.SegmentAttributes, "connect:EmailSubject"))
    /\ ~IsNone(cd.InstanceARN)

ProbedFields == <<"messageContent", "content", "body", "text", "message">>

\* the document fetched for the current reference has a content field
Yields(doc) ==
    /\ doc.isJson /\ doc.isDict
    /\ \E i \in 1..Len(ProbedFields) : Truthy(Get(doc.fields, ProbedFields[i]))

\* the first of the probed fields that has content
FirstYield(doc) ==
    LET i == CHOOSE k \in 1..Len(ProbedFields) :
                 /\ Truthy(Get(doc.fields, ProbedFields[k]))
                 /\ \A j \in 1..(k - 1) : ~Truthy(Get(doc.fields, ProbedFields[j]))
    IN  doc.fields[ProbedFields[i]]

\* one step of the walk over the references
C13_Step ==
    /\ (pc = "download" \/ (pc = "refs" /\ refIdx <= Len(cd.References)))
       => \/ pc' = "download" /\ refIdx' = refIdx       \* same reference
          \/ pc' = "refs" /\ refIdx' = refIdx + 1       \* swallowed: the next one
          \/ /\ pc' = "attributes"                      \* content returned
             /\ dl.pc = "loaded" /\ Yields(dl.doc)
    /\ (pc = "download" /\ dl.pc = "loaded" /\ Yields(dl.doc))
       => /\ pc' = "attributes"
          /\ loc'.source = "reference"
          /\ loc'.email_content = clean_string(FirstYield(dl.doc))

\* C13: while the references are walked, an error for one EMAIL_MESSAGE
\* reference (file API failure, no download url, rejected url, download or
\* JSON failure, JSON without a content field) only moves the walk to the
\* next reference; a reference whose document has one of the fields
\* messageContent, content, body, text, message (probed in that order)
\* ends the walk with that content.
C13_SwallowAndContinue == [][C13_Step]_vars

\* the first email reference failed and the second one's document has
\* content
C13_Witness ==
    /\ pc = "download"
    /\ refIdx = 2
    /\ cd.References[1] = EmailRef
    /\ dl.pc = "loaded"
    /\ Yields(dl.doc)

-----------------------------------------------------------------------------
(* Claims about the scorer *)

NonNegative(factors) == \A k \in DOMAIN factors : factors[k] >= 0

\* C3: for every factors mapping with non-negative integer counts,
\* recognized and unrecognized names alike, the result's total_deduction is
\* the sum over the recognized names of table[name] * count and its
\* final_score is max(0, 100 + total_deduction).
C3_ScoreIsTableSum ==
    (/\ probe.fn = "calculate_confidence_score"
     /\ probe.done
     /\ NonNegative(probe.arg))
    => LET total == SumOver(probe.arg, DOMAIN probe.arg \cap RecognizedFactors)
       IN  /\ probe.ret["total_deduction"] = total
           /\ probe.ret["final_score"] = Max(0, 100 + total)

-----------------------------------------------------------------------------
(* Claims about the URL validator *)

IsLabel(s) ==
    /\ s # <<>>
    /\ \A i \in 1..Len(s) : s[i] \in {"b", "-"}
    /\ s[1] = "b" /\ s[Len(s)] = "b"

IsBucket(s) ==
    /\ s # <<>>
    /\ \A i \in 1..Len(s) : s[i] \in {"b", "-", ".", "s3"}
    /\ s[1] \in {"b", "s3"} /\ s[Len(s)] \in {"b", "s3"}

\* <bucket>.s3[.-]<region>.amazonaws.com, <bucket>.s3.amazonaws.com
VirtualHostedShape(h) ==
    \E i \in 1..Len(h) :
        /\ IsBucket(SubSeq(h, 1, i))
        /\ LET rest == SubSeq(h, i + 1, Len(h))
           IN  \/ rest = <<".", "s3">> \o AwsSuffix
               \/ /\ EndsWith(rest, AwsSuffix)
                  /\ Len(rest) > 3 + Len(AwsSuffix)
                  /\ SubSeq(rest, 1, 2) = <<".", "s3">>
                  /\ rest[3] \in {".", "-"}
                  /\ IsLabel(SubSeq(rest, 4, Len(rest) - Len(AwsSuffix)))

\* s3[.-]<region>.amazonaws.com, s3.amazonaws.com
PathStyleShape(h) ==
    \/ h = <<"s3">> \o AwsSuffix
    \/ /\ EndsWith(h, AwsSuffix)
       /\ Len(h) > 2 + Len(AwsSuffix)
       /\ h[1] = "s3"
       /\ h[2] \in {".", "-"}
       /\ IsLabel(SubSeq(h, 3, Len(h) - Len(AwsSuffix)))

\* C5: validate_aws_url returns true only for an https url with a
\* non-empty hostname that ends with the amazonaws.com suffix and has one
\* of the known bucket-addressing shapes.
C5_AcceptedOnlyKnownShapes ==
    (/\ probe.fn = "validate_aws_url"
     /\ probe.done
     /\ probe.ret = TRUE)
    => /\ probe.arg.parses
       /\ UrlScheme(probe.arg) = "https"
       /\ UrlHostname(probe.arg) # <<>>
       /\ EndsWith(UrlHostname(probe.arg), AwsSuffix)
       /\ \/ VirtualHostedShape(UrlHostname(probe.arg))
          \/ PathStyleShape(UrlHostname(probe.arg))

\* <bucket>.s3.<region>.amazonaws.com/<key> or
\* s3.<region>.amazonaws.com/<bucket>/<key>, over https
WellFormedObjectStoreUrl(url) ==
    /\ url.parses
    /\ url.scheme = "https"
    /\ EndsWith(url.host, AwsSuffix)
    /\ LET h == SubSeq(url.host, 1, Len(url.host) - Len(AwsSuffix))
       IN  \/ \E i \in 1..Len(h) :
                 /\ IsLabel(SubSeq(h, 1, i))
                 /\ Len(h) >= i + 4
                 /\ SubSeq(h, i + 1, i + 3) = <<".", "s3", ".">>
                 /\ IsLabel(SubSeq(h, i + 4, Len(h)))
           \/ /\ Len(h) >= 3
              /\ SubSeq(h, 1, 2) = <<"s3", ".">>
              /\ IsLabel(SubSeq(h, 3, Len(h)))
              /\ Len(url.path) >= 2

\* C6: validate_aws_url returns true for every well-formed https
\* object-store url, virtual-hosted or path-style.
C6_AcceptsBothShapes ==
    (/\ probe.fn = "validate_aws_url"
     /\ probe.done
     /\ WellFormedObjectStoreUrl(probe.arg))
    => probe.ret = TRUE

-----------------------------------------------------------------------------
(* Claims about the output parser (SpecParse) *)

\* C14: when strict JSON parsing fails parse_bedrock_response never raises:
\* the pattern fallback gives each boolean factor as 1 when its pattern
\* matched and 0 otherwise, multiple_topics as the matched integer or 0,
\* and intent, category, confidence_explanation, suggested_response as the
\* matched text or their defaults.
C14_FallbackDefaults ==
    (/\ probe.fn = "parse_bedrock_response"
     /\ probe.done
     /\ probe.arg.shape = "garbage")
    => /\ ~probe.ret.raised
       /\ LET a == probe.arg
              d == probe.ret.data
          IN  /\ \A f \in BooleanFactors :
                    d.factors[f] = IF f \in DOMAIN a.factors THEN 1 ELSE 0
              /\ d.factors["multiple_topics"] =
                    IF "multiple_topics" \in DOMAIN a.factors
                    THEN a.factors["multiple_topics"] ELSE 0
              /\ d.intent = IF "intent" \in a.present THEN a.intent
                            ELSE <<"General Inquiry">>
              /\ d.category = IF "category" \in a.present THEN a.category
                              ELSE <<"General_Inquiry">>
              /\ d.confidence_explanation =
                    IF "confidence_explanation" \in a.present
                    THEN a.confidence_explanation
                    ELSE <<"Analysis unavailable">>
              /\ d.suggested_response =
                    IF "suggested_response" \in a.present
                    THEN a.suggested_response
                    ELSE <<"Thank you for contacting us. An agent will assist you.">>

\* C15: for every well-formed JSON object text, fenced or not, the pre-pass
\* leaves the text unchanged and the strict path returns exactly the
\* fields of the decoded object, no value altered.
C15_StrictIdentity ==
    /\ (probe.fn = "fix_newlines" /\ probe.done)
       => probe.ret = RenderObject(probe.arg)
    /\ (/\ probe.fn = "parse_bedrock_response"
        /\ probe.done
        /\ probe.arg.shape = "object")
       => /\ ~probe.ret.raised
          /\ probe.ret.data.present = probe.arg.present
          /\ \A k \in probe.arg.present :
                probe.ret.data[k] = probe.arg[k]

RECURSIVE BackslashesBefore(_, _)
\* the number of consecutive backslashes that end just before index i
BackslashesBefore(text, i) ==
    IF i > 1 /\ text[i - 1] = "BS" THEN 1 + BackslashesBefore(text, i - 1) ELSE 0

\* the quote at index i is unescaped: an even number of backslashes precede it
UnescapedQuote(text, i) ==
    text[i] = "Q" /\ BackslashesBefore(text, i) % 2 = 0

\* index i lies inside a string: an odd number of unescaped quotes precede it
InsideString(text, i) ==
    Cardinality({ j \in 1..(i - 1) : UnescapedQuote(text, j) }) % 2 = 1

RECURSIVE EscapedInStrings(_, _)
\* the text with each line feed and carriage return inside a string
\* replaced by its two-character escape, from index i
EscapedInStrings(text, i) ==
    IF i > Len(text) THEN <<>>
    ELSE (IF InsideString(text, i) /\ text[i] = "LF" THEN <<"BS", "n">>
          ELSE IF InsideString(text, i) /\ text[i] = "CR" THEN <<"BS", "r">>
          ELSE <<text[i]>>)
         \o EscapedInStrings(text, i + 1)

\* C28: for every input text, the pre-pass rewrites a literal newline or
\* carriage return to its two-character escape if and only if that
\* character lies inside a JSON string, where a string starts and ends at
\* each unescaped double quote (a quote preceded by an even number of
\* backslashes is unescaped); every other character is copied unchanged.
C28_RewritesInsideStringsOnly ==
    (probe.fn = "fix_newlines_text" /\ probe.done)
    => probe.ret = EscapedInStrings(probe.arg, 1)

-----------------------------------------------------------------------------
(* Claims about the response builder (SpecBuild) *)

RECURSIVE WithName(_, _)
\* the text with every 'Dear Valued Customer' turned into 'Dear ' and name
WithName(text, name) ==
    IF Len(text) < 2 THEN text
    ELSE IF text[1] = "Dear " /\ text[2] = "Valued Customer"
         THEN <<"Dear ">> \o name \o WithName(SubSeq(text, 3, Len(text)), name)
         ELSE <<text[1]>> \o WithName(Tail(text), name)

\* C18: build_response rewrites the salutation: for a customer name N
\* other than the placeholder every 'Dear Valued Customer' of the suggested
\* response becomes exactly 'Dear N' (so 'Dear Valued Customer,' becomes
\* 'Dear N,'); with the placeholder or no name the salutation is unchanged.
C18_SalutationRewritten ==
    (/\ probe.fn = "build_response"
     /\ probe.done
     /\ "suggested_response" \in DOMAIN probe.arg)
    => LET n == probe.arg.customer_name_text
           t == probe.arg.suggested_response
       IN  probe.ret.suggested_response =
              UnescapeNewlines(IF Truthy(n) /\ Val(n) # PLACEHOLDER_NAME
                               THEN WithName(t, Val(n)) ELSE t)


-----------------------------------------------------------------------------
(* Claims about the store and the read side (SpecStore) *)

\* the request of lookup q carries no contact identifier: absent, null or empty
NoIdentifier(q) ==
    ~event[q].hasContactId \/ IsNone(event[q].ContactId) \/ Val(event[q].ContactId) = ""

\* C21: the read-side lambda_handler maps every request to exactly one
\* status without raising: 400 when the event carries no contact identifier
\* (absent, null or empty), 404 when the identifier is present but the store
\* has no item for it, 200 together with the record's fields when the item
\* exists.
C21_OneStatusNoRaise ==
    \A q \in Lookups :
       pc[q] \in {"returned", "raised"} =>
          /\ pc[q] = "returned"
          /\ IF NoIdentifier(q) THEN response[q].statusCode = 400
             ELSE IF IsNone(loc[q]) THEN response[q].statusCode = 404
             ELSE /\ response[q].statusCode = 200
                  /\ DOMAIN response[q] = DOMAIN Val(loc[q]).m \cup {"statusCode"}

\* C22: after a successful save of a record with contactId c, every later
\* lookup of c that reads the item returns statusCode 200 with the saved
\* record's fields, every number a plain integer or float at every level of
\* nesting (an integer-valued store decimal an integer).
C22_LookupReturnsSavedRecord ==
    \A q \in Lookups :
       (pc[q] \in {"returned", "raised"} /\ ~IsNone(loc[q])) =>
          /\ pc[q] = "returned"
          /\ \E p \in Invocations :
                /\ pc[p] \in {"return", "returned"}
                /\ event[p].ContactId = event[q].ContactId
                /\ response[q] = PyDict(response[p]).m @@ [statusCode |-> 200]

\* the item is a complete record and its fields are those of invocation p's
\* event
BuiltFor(item, p) ==
    /\ DOMAIN item.m = RecordFields \cup {"ttl"}
    /\ item.m.contactId = Py("str", Val(event[p].ContactId))
    /\ item.m.credit_value = Stored(FieldPy("credit_value", event[p].credit_score))

\* C23: under any interleaving of email invocations and lookups, the item
\* stored under contactId c is always a complete record built by an
\* invocation whose event had contactId c, and a lookup of c never returns
\* fields built for another contact.
C23_NoInterference ==
    /\ \A c \in DOMAIN table :
          \E p \in Invocations :
             /\ event[p].ContactId = Some(c)
             /\ pc[p] \in {"return", "returned"}
             /\ table[c] = Stored(PyDict(response[p]))
             /\ BuiltFor(table[c], p)
    /\ \A q \in Lookups :
          ~IsNone(loc[q]) =>
             \E p \in Invocations :
                /\ event[p].ContactId = event[q].ContactId
                /\ BuiltFor(Val(loc[q]), p)

\* both contacts have an item, written by invocations for different
\* contacts, and a lookup has returned one of them
C23_Witness ==
    /\ DOMAIN table = ContactIds
    /\ event["e1"].ContactId # event["e2"].ContactId
    /\ \E q \in Lookups : pc[q] = "returned" /\ response[q].statusCode = 200

-----------------------------------------------------------------------------
(* Claims about the handler's stages (Spec) *)

\* C24: query_knowledge_base never raises and never aborts the pipeline:
\* for every retrieval outcome (results, empty result, service error,
\* missing knowledge-base id) it returns a string (the labelled result
\* blocks in service order, the 'no relevant information' message, or the
\* 'error retrieving information' message), and lambda_handler then still
\* invokes the model.
C24_RetrievalNeverAborts ==
    /\ loc.raised # "knowledge_retrieval"
    /\ "knowledge_retrieval" \in Range(stages) =>
          LET text == loc.knowledge_results
              results == loc.retrieval.results
          IN  /\ IsText(text)
              /\ ~env.KNOWLEDGE_BASE_ID => text = KB_ERROR
              /\ IF loc.retrieval.raised THEN text = KB_ERROR
                 ELSE IF results = <<>> THEN text = KB_EMPTY
                 ELSE /\ Len(text) = 5 * Len(results) - 2
                      /\ \A i \in 1..Len(results) :
                            /\ text[5 * i - 4] = InformationLabel(i)
                            /\ text[5 * i - 2] = results[i]
              /\ pc # "bedrock" => Len(cb.invoked) >= 1

\* the service raised, with a knowledge base configured, and the model was
\* invoked all the same
C24_Witness ==
    /\ env.KNOWLEDGE_BASE_ID
    /\ loc.retrieval.raised
    /\ loc.knowledge_results = KB_ERROR
    /\ Len(cb.invoked) >= 1

\* C25: whenever a numeric credit score is present in the event (any
\* integer extract_attribute returns, 0 included, so that the record has
\* credit_available true), the query submitted to the retrieval service
\* carries the annotation '[Customer Credit Score: <n>]'; when no score is
\* present the query is the email text alone.
C25_QueryAnnotated ==
    "knowledge_retrieval" \in Range(stages) =>
       loc.kb_query =
          IF ~IsNone(loc.credit_score)
          THEN loc.email_content
               \o <<" [Customer Credit Score: ", StrOf(Val(loc.credit_score)), "]">>
          ELSE loc.email_content

\* C26: extract_attribute never raises: it returns the trimmed value from
\* the flat Attributes map when that is non-empty, otherwise the trimmed
\* ValueString from SegmentAttributes when that is non-empty, otherwise
\* None; with convert_to_int a value that is no integer yields None.
C26_ExtractAttributeNeverRaises ==
    /\ loc.raised # "attributes"
    /\ "knowledge_retrieval" \in Range(stages) =>
          LET flat == Get(cd.Attributes, "CreditScore")
              seg == Get(cd.SegmentAttributes, "CreditScore")
              chosen == IF Truthy(flat) /\ Strip(Val(flat)) # <<>> THEN flat
                        ELSE IF Truthy(seg) /\ Strip(Val(seg)) # <<>> THEN seg
                        ELSE None
          IN  loc.credit_score = IF IsNone(chosen) THEN None ELSE IntOf(Val(chosen))

\* the fields of a record that are handed to a presentation layer
PresentedFields ==
    { "suggested_response", "suggested_response_agent",
      "suggested_response_sbs_formatting", "confidence_explanation_sbs_formatting" }

\* a control or non-printable character that is no line break or tab
IsControl(a) == a \in {"BEL", "BOM"}

\* C27: in every record returned by lambda_handler, every text field handed
\* to a presentation layer contains no control or non-printable character
\* other than line breaks and tabs, whatever text the model or the event
\* supplied.
C27_PresentedTextClean ==
    pc = "returned" =>
       \A f \in PresentedFields :
          \A i \in 1..Len(response[f]) : ~IsControl(response[f][i])

\* C29: when a store is configured, every record lambda_handler returns,
\* the degraded record built after a top-level exception included, has been
\* passed to the persistence write before the return.
C29_ReturnedRecordWritten ==
    (pc = "returned" /\ env.DYNAMODB_TABLE_NAME) =>
       "persistence_write" \in Range(stages)

\* C30: the per-factor entries that calculate_confidence_score merges into
\* its result never overwrite the computed entries: whatever the key names
\* of the factors mapping, the result's final_score is
\* max(0, 100 + sum of recognized deductions) and that is the
\* confidence_score of the record.
C30_ComputedEntriesKept ==
    ("record_building" \in Range(stages) /\ cb.success) =>
       LET factors == DataGet(cb.data, "factors", <<>>)
           expected == Max(0, 100 + SumOver(factors, DOMAIN factors \cap RecognizedFactors))
       IN  /\ loc.confidence_calculation["final_score"] = expected
           /\ response.confidence_score = expected
=============================================================================
